---------------------------- MODULE Spec2Model ----------------------------
(***************************************************************************)
(* Migration forecasting core: year expansion, transition-matrix           *)
(* estimation, propagation, ensemble statistics and the model-run state    *)
(* machine of the React application.                                       *)
(*                                                                         *)
(* Arithmetic.  JavaScript numbers are modelled as exact rationals         *)
(* <<numerator, denominator>> in lowest terms with a positive denominator. *)
(* Math.log and Math.exp are modelled by tables of rounded values at the   *)
(* arguments the model uses.                                               *)
(***************************************************************************)
EXTENDS Integers, Sequences, FiniteSets, TLC

(***************************************************************************)
(* Exact rational arithmetic standing for JavaScript Number arithmetic.    *)
(***************************************************************************)
Abs(x) == IF x < 0 THEN -x ELSE x

RECURSIVE GCD(_, _)
GCD(a, b) == IF b = 0 THEN a ELSE GCD(b, a % b)

Norm(n, d) ==
    LET g == GCD(Abs(n), Abs(d))
        s == IF d < 0 THEN -1 ELSE 1
    IN  <<(s * n) \div g, (s * d) \div g>>

Rat(n) == <<n, 1>>

Frac(n, d) == Norm(n, d)

RZero == <<0, 1>>

ROne == <<1, 1>>

RAdd(x, y) ==
    LET g == GCD(x[2], y[2])
    IN  Norm(x[1] * (y[2] \div g) + y[1] * (x[2] \div g), (x[2] \div g) * y[2])

RSub(x, y) == RAdd(x, <<-y[1], y[2]>>)

RMul(x, y) ==
    LET g1 == GCD(Abs(x[1]), y[2])
        g2 == GCD(Abs(y[1]), x[2])
    IN  Norm((x[1] \div g1) * (y[1] \div g2), (x[2] \div g2) * (y[2] \div g1))

\* x / y for y # 0
RDiv(x, y) == RMul(x, Norm(y[2], y[1]))

RLe(x, y) ==
    LET g == GCD(x[2], y[2])
    IN  x[1] * (y[2] \div g) <= y[1] * (x[2] \div g)

RLt(x, y) == RLe(x, y) /\ x # y

RMax(x, y) == IF RLe(x, y) THEN y ELSE x

\* Array.prototype.reduce((a, b) => a + b, 0)
RECURSIVE RSum(_)
RSum(s) == IF s = <<>> THEN RZero ELSE RAdd(RSum(SubSeq(s, 1, Len(s) - 1)), s[Len(s)])

SeqToSet(s) == {s[i] : i \in DOMAIN s}

(***************************************************************************)
(* State.  Each group of variables belongs to one component; a             *)
(* specification drives one component and leaves the others idle.          *)
(***************************************************************************)
VARIABLES
    \* YearExpander
    yxSelected,     \* selectedYears handed to the expander
    yxAvailable,    \* availableYears handed to the expander
    yxExpanded,     \* result of expandSelectedYearsWithAdjacents
    yxPairs,        \* result of computePairsFromExpanded
    yxPc,           \* "input", "expanded" or "paired"
    \* TransitionEstimator
    tmCountries,    \* the ordered location list
    tmFlows,        \* flows: country -> [stock, inflow, outflow]
    tmCoeff,        \* <<distCoeff, connCoeff>>
    tmMatrix,       \* the matrix returned
    tmPc,           \* "input" or "estimated"
    \* Propagator
    ppCountries,    \* the ordered location list
    ppMatrix,       \* a matrix whose rows each sum to 1
    ppInitPop,      \* the population vector the forecast starts from
    ppPop,          \* the population vector after ppStep applications
    ppStep,         \* applications so far; -1 when idle
    \* Ensemble statistics
    stVals,         \* the member values of one location at one step
    stResult,       \* [mean, lower, upper] computed from them
    stPc,           \* "input", "worker" or "app"
    \* EnsembleSampler
    enMatrix,       \* the averaged matrix the runs sample around
    enSteps,        \* forecast steps of a run; -1 when the sampler is idle
    enHistory,      \* the last run and one earlier run, each with its bands
    \* AppInner: the React state the model run reads and writes
    migrationData,  \* the years of the loaded rows
    years,          \* the years the year selects offer
    allCountries,   \* the locations the country grid offers
    yearIndex,      \* the years that have a row in the index
    selectedCountries,
    inputMode,      \* "single" or "multiple"
    inputYear,      \* 0 stands for null
    inputYearsMulti,
    targetYear,     \* 0 stands for null
    loadingData,
    modelRunning,
    modelStage,     \* the values setModelStage was given since the last click on Run
    resultsReady,
    predictions,    \* the years of the prediction records, with the sampler
    averageTransitionMatrix, \* the data years it was built from; {} is null
    validationMetrics,       \* the years it compares; {} is null
    \* AppInner: what is pending outside the component
    loadsPending,   \* loadData calls that have not finished; -1 when idle
    timers,         \* pending setTimeout(() => setModelRunning(false), 500)
    awaiting,       \* runs waiting for runEnsembleWorker
    runCount,       \* runs started so far
    resultsOf,      \* the run that wrote the result state last; 0 for none
    alerts,         \* calls of alert("Failed to generate predictions: ...")
    \* the helpers of the model run, one call per behaviour
    hpArg,          \* the arguments of the call
    hpResult,       \* what it returned
    hpPc            \* "input" before the call, then the helper's name

yxVars == <<yxSelected, yxAvailable, yxExpanded, yxPairs, yxPc>>

tmVars == <<tmCountries, tmFlows, tmCoeff, tmMatrix, tmPc>>

ppVars == <<ppCountries, ppMatrix, ppInitPop, ppPop, ppStep>>

stVars == <<stVals, stResult, stPc>>

enVars == <<enMatrix, enSteps, enHistory>>

dataVars == <<migrationData, years, allCountries, yearIndex, loadingData,
              loadsPending>>

inputVars == <<selectedCountries, inputMode, inputYear, inputYearsMulti,
               targetYear>>

resultVars == <<predictions, averageTransitionMatrix, validationMetrics,
                resultsReady>>

runVars == <<modelRunning, modelStage, timers, awaiting, runCount, resultsOf,
             alerts>>

appVars == <<dataVars, inputVars, resultVars, runVars>>

hpVars == <<hpArg, hpResult, hpPc>>

vars == <<yxVars, tmVars, ppVars, stVars, enVars, appVars, hpVars>>

(***************************************************************************)
(* YearExpander: expandSelectedYearsWithAdjacents, computePairsFromExpanded *)
(***************************************************************************)
\* first year the data loader asks for
ExpectedFrom == 2000

\* number of consecutive years the model's year universe holds
NumYears == 5

\* longest selectedYears array the model feeds to the expander
MaxSel == 2

YearUniverse == ExpectedFrom .. (ExpectedFrom + NumYears - 1)

\* Set.prototype.add on an insertion-ordered Set
SetAdd(s, x) == IF x \in SeqToSet(s) THEN s ELSE Append(s, x)

\* new Set(array)
RECURSIVE NewSet(_)
NewSet(arr) ==
    IF arr = <<>> THEN <<>>
    ELSE SetAdd(NewSet(SubSeq(arr, 1, Len(arr) - 1)), arr[Len(arr)])

\* insertion of x into an ascending sequence, after its equals (stable)
RECURSIVE InsertAsc(_, _)
InsertAsc(s, x) ==
    IF s = <<>> THEN <<x>>
    ELSE IF x < s[Len(s)] THEN Append(InsertAsc(SubSeq(s, 1, Len(s) - 1), x), s[Len(s)])
    ELSE Append(s, x)

\* Array.prototype.sort((a, b) => a - b)
RECURSIVE SortAsc(_)
SortAsc(s) ==
    IF s = <<>> THEN <<>>
    ELSE InsertAsc(SortAsc(SubSeq(s, 1, Len(s) - 1)), s[Len(s)])

\* the forEach body of expandSelectedYearsWithAdjacents, the mutant that
\* forgets the availability test of the following year
AddAdjacents_NoAvailCheck(expanded, y, availSet) ==
    LET e1 == IF (y - 1) \in availSet THEN SetAdd(expanded, y - 1) ELSE expanded
    IN  SetAdd(e1, y + 1)

AddAdjacents(expanded, y, availSet) ==
    LET e1 == IF (y - 1) \in availSet THEN SetAdd(expanded, y - 1) ELSE expanded
    IN  IF (y + 1) \in availSet THEN SetAdd(e1, y + 1) ELSE e1

RECURSIVE ExpandLoop(_, _, _, _)
ExpandLoop(expanded, selectedYears, i, availSet) ==
    IF i > Len(selectedYears) THEN expanded
    ELSE ExpandLoop(AddAdjacents(expanded, selectedYears[i], availSet),
                    selectedYears, i + 1, availSet)

expandSelectedYearsWithAdjacents(selectedYears, availableYears) ==
    SortAsc(ExpandLoop(NewSet(selectedYears), selectedYears, 1, availableYears))

\* the loop body of computePairsFromExpanded, the mutant that pairs every
\* two neighbours of the list
PairStep_AnyGap(pairs, y1, y2) == Append(pairs, <<y1, y2>>)

PairStep(pairs, y1, y2) == IF y2 - y1 = 1 THEN Append(pairs, <<y1, y2>>) ELSE pairs

RECURSIVE PairsLoop(_, _, _)
PairsLoop(pairs, arr, i) ==
    IF i > Len(arr) - 1 THEN pairs
    ELSE PairsLoop(PairStep(pairs, arr[i], arr[i + 1]), arr, i + 1)

computePairsFromExpanded(expandedYearsArr) == PairsLoop(<<>>, expandedYearsArr, 1)

SelectedArrays == UNION {[1..n -> YearUniverse] : n \in 0..MaxSel}

YxIdle ==
    /\ yxSelected = <<>>
    /\ yxAvailable = {}
    /\ yxExpanded = <<>>
    /\ yxPairs = <<>>
    /\ yxPc = "idle"

YxExpand ==
    /\ yxPc = "input"
    /\ yxExpanded' = expandSelectedYearsWithAdjacents(yxSelected, yxAvailable)
    /\ yxPc' = "expanded"
    /\ UNCHANGED <<yxSelected, yxAvailable, yxPairs>>
    /\ UNCHANGED <<tmVars, ppVars, stVars, enVars, appVars, hpVars>>

YxPairs ==
    /\ yxPc = "expanded"
    /\ yxPairs' = computePairsFromExpanded(yxExpanded)
    /\ yxPc' = "paired"
    /\ UNCHANGED <<yxSelected, yxAvailable, yxExpanded>>
    /\ UNCHANGED <<tmVars, ppVars, stVars, enVars, appVars, hpVars>>

YxNext == YxExpand \/ YxPairs

(***************************************************************************)
(* GeoFeatures and TransitionEstimator: estimateTransitionMatrix           *)
(***************************************************************************)
\* a value that is undefined or NaN (Number.isFinite fails, it is falsy)
NaN == <<0, 0>>

\* JavaScript falsiness of a number: 0, NaN and undefined
Falsy(x) == x[2] = 0 \/ x[1] = 0

\* x || 0
OrZero(x) == IF Falsy(x) THEN RZero ELSE x

\* most countries one model run selects
NumCountries == 3

\* countries of the coordinate table the model selects from, in the order
\* of selectedCountries
CountryNames == <<"Germany", "France", "Spain", "Italy">>

\* geographicDistances[c1][c2]: haversineDistance over countryCoordinates,
\* rounded to whole kilometres; -1 stands for an absent entry
DistanceKm(c1, c2) ==
    LET pair == {c1, c2}
    IN  CASE c1 = c2 -> 0
          [] pair = {"Germany", "France"} -> 816
          [] pair = {"Germany", "Spain"} -> 1615
          [] pair = {"Germany", "Italy"} -> 1046
          [] pair = {"France", "Spain"} -> 802
          [] pair = {"France", "Italy"} -> 958
          [] pair = {"Spain", "Italy"} -> 1373
          [] OTHER -> -1

\* distances?.[origin]?.[dest] ?? 3000
DistanceOrDefault(origin, dest) ==
    IF DistanceKm(origin, dest) = -1 THEN 3000 ELSE DistanceKm(origin, dest)

\* the neighbors table of calculateConnectivity, the model's countries
Neighbors(c1) ==
    CASE c1 = "Germany" -> {"France", "Austria", "Switzerland", "Belgium",
                            "Netherlands", "Poland", "Czech Republic", "Denmark"}
      [] c1 = "France" -> {"Germany", "Belgium", "Switzerland", "Italy", "Spain"}
      [] c1 = "Spain" -> {"France", "Portugal"}
      [] c1 = "Italy" -> {"France", "Switzerland", "Austria"}
      [] OTHER -> {}

\* conn[c1][c2]: 0 on the diagonal, else calculateConnectivity(c1, c2)
calculateConnectivity(c1, c2) ==
    IF c1 # c2 /\ c2 \in Neighbors(c1) THEN ROne ELSE RZero

\* Math.log(x) for the integer arguments the model uses, to two decimals
MathLog(x) ==
    CASE x = 10 -> Frac(230, 100)
      [] x = 60 -> Frac(409, 100)
      [] x = 210 -> Frac(535, 100)

\* Math.exp(-x) for a rational x >= 0, to two decimals; the table is keyed
\* by 2000 * x, which is distCoeff * distance for distCoeff in {0, 1/2, 1}
MathExpNeg(x) ==
    LET k == (2000 * x[1]) \div x[2]
    IN  CASE k = 0 -> ROne
          [] k = 816 -> Frac(66, 100)
          [] k = 1632 -> Frac(44, 100)
          [] k = 1615 -> Frac(45, 100)
          [] k = 3230 -> Frac(20, 100)
          [] k = 1046 -> Frac(59, 100)
          [] k = 2092 -> Frac(35, 100)
          [] k = 802 -> Frac(67, 100)
          [] k = 1604 -> Frac(45, 100)
          [] k = 958 -> Frac(62, 100)
          [] k = 1916 -> Frac(38, 100)
          [] k = 1373 -> Frac(50, 100)
          [] k = 2746 -> Frac(25, 100)
          [] k = 3000 -> Frac(22, 100)
          [] k = 6000 -> Frac(5, 100)

\* the test for a missing record or an unparsed stock that lets a stock of 0
\* through
NoStock_NotZero(flows, origin) ==
    \/ origin \notin DOMAIN flows
    \/ flows[origin].stock = NaN

\* !originFlow?.stock
NoStock(flows, origin) ==
    \/ origin \notin DOMAIN flows
    \/ Falsy(flows[origin].stock)

\* the stay probability without its floor of 0.5
StayProb_NoFloor(totalOutflow, stock) ==
    RSub(ROne, RDiv(totalOutflow, RMax(ROne, stock)))

\* Math.max(0.5, 1 - totalOutflow / Math.max(1, originFlow.stock))
StayProb(totalOutflow, stock) ==
    RMax(Frac(1, 2), RSub(ROne, RDiv(totalOutflow, RMax(ROne, stock))))

\* a weight of 0 for every destination
Weight_Zero(flows, origin, dest, distCoeff, connCoeff) == RZero

\* the weight of destination dest seen from origin
Weight(flows, origin, dest, distCoeff, connCoeff) ==
    LET inflow == IF dest \in DOMAIN flows THEN OrZero(flows[dest].inflow) ELSE RZero
        attractiveness == MathLog(inflow[1] + 10)
        distance == DistanceOrDefault(origin, dest)
        connectivityBonus == RAdd(ROne, RMul(connCoeff, calculateConnectivity(origin, dest)))
        distanceEffect == MathExpNeg(RDiv(RMul(distCoeff, Rat(distance)), Rat(1000)))
    IN  RMul(RMul(RMax(Frac(1, 10000), attractiveness), distanceEffect),
             connectivityBonus)

\* row / rowSum when rowSum > 0
NormalizeRow(row) ==
    LET rowSum == RSum(row)
    IN  IF RLt(RZero, rowSum) THEN [j \in DOMAIN row |-> RDiv(row[j], rowSum)]
        ELSE row

\* the body of countries.forEach((origin, i) => ...): row i of the matrix
EstimateRow(flows, countries, i, distCoeff, connCoeff) ==
    LET n == Len(countries)
        origin == countries[i]
    IN  IF NoStock(flows, origin)
        THEN [j \in 1..n |-> IF j = i THEN ROne ELSE RZero]
        ELSE
          LET totalOutflow == OrZero(flows[origin].outflow)
              stayProb == StayProb(totalOutflow, flows[origin].stock)
              remainingProb == RSub(ROne, stayProb)
              weights == [j \in 1..n |->
                            IF i = j THEN RZero
                            ELSE Weight(flows, origin, countries[j], distCoeff, connCoeff)]
              weightSum == RSum(weights)
              row == [j \in 1..n |->
                        IF i = j THEN stayProb
                        ELSE IF RLt(RZero, weightSum)
                             THEN RMul(remainingProb, RDiv(weights[j], weightSum))
                             ELSE RZero]
          IN  NormalizeRow(row)

estimateTransitionMatrix(flows, countries, distCoeff, connCoeff) ==
    [i \in 1..Len(countries) |-> EstimateRow(flows, countries, i, distCoeff, connCoeff)]

StockValues == {Rat(0), Rat(1000)}

InflowValues == {Rat(0), Rat(200)}

OutflowValues == {Rat(100), Rat(2000)}

\* the records getFlows can return, and one whose stock is not a number
FlowRecords ==
    [stock : StockValues, inflow : InflowValues, outflow : OutflowValues]
      \cup {[stock |-> NaN, inflow |-> Rat(200), outflow |-> Rat(100)]}

\* distance effect alpha and connectivity effect beta, both in [0, 1]
CoeffValues == {<<Rat(0), Rat(0)>>, <<Frac(1, 2), Frac(3, 10)>>, <<Rat(1), Rat(1)>>}

TmIdle ==
    /\ tmCountries = <<>>
    /\ tmFlows = <<>>
    /\ tmCoeff = <<RZero, RZero>>
    /\ tmMatrix = <<>>
    /\ tmPc = "idle"

TmEstimate ==
    /\ tmPc = "input"
    /\ tmMatrix' = estimateTransitionMatrix(tmFlows, tmCountries, tmCoeff[1], tmCoeff[2])
    /\ tmPc' = "estimated"
    /\ UNCHANGED <<tmCountries, tmFlows, tmCoeff>>
    /\ UNCHANGED <<yxVars, ppVars, stVars, enVars, appVars, hpVars>>

TmNext == TmEstimate

(***************************************************************************)
(* Propagator: propagatePopulation (application) and propagate (worker)    *)
(***************************************************************************)
\* currentPop?.[origin] ?? 0
PopOrZero(currentPop, origin) ==
    IF origin \in DOMAIN currentPop THEN currentPop[origin] ELSE RZero

\* transMatrix?.[i]?.[j] ?? 0
EntryOrZero(transMatrix, i, j) ==
    IF i \in DOMAIN transMatrix /\ j \in DOMAIN transMatrix[i]
    THEN transMatrix[i][j] ELSE RZero

\* propagatePopulation reading the matrix entry [j][i] instead of [i][j]
propagatePopulation_Transposed(currentPop, transMatrix, countries) ==
    [dest \in SeqToSet(countries) |->
        LET j == CHOOSE k \in DOMAIN countries : countries[k] = dest
        IN  RSum([i \in DOMAIN countries |->
                    RMul(PopOrZero(currentPop, countries[i]),
                         EntryOrZero(transMatrix, j, i))])]

\* newPop[dest] = sum over origins of currentPop[origin] * transMatrix[i][j]
propagatePopulation(currentPop, transMatrix, countries) ==
    [dest \in SeqToSet(countries) |->
        LET j == CHOOSE k \in DOMAIN countries : countries[k] = dest
        IN  RSum([i \in DOMAIN countries |->
                    RMul(PopOrZero(currentPop, countries[i]),
                         EntryOrZero(transMatrix, i, j))])]

\* the worker's propagate: a matrix of the wrong length leaves the
\* population as it is
propagate(currentPop, transMatrix, countries) ==
    IF Len(transMatrix) # Len(countries)
    THEN [c \in SeqToSet(countries) |-> OrZero(PopOrZero(currentPop, c))]
    ELSE [dest \in SeqToSet(countries) |->
            LET j == CHOOSE k \in DOMAIN countries : countries[k] = dest
            IN  RSum([i \in DOMAIN countries |->
                        RMul(PopOrZero(currentPop, countries[i]),
                             EntryOrZero(transMatrix, i, j))])]

\* most applications of a matrix to one population vector
PropSteps == 2

\* rows that sum to 1: stay, split (half stays, half moves on in equal
\* parts), leave (all of it moves to the next location)
StochasticRows(n, i) ==
    { [j \in 1..n |-> IF j = i THEN ROne ELSE RZero],
      [j \in 1..n |-> IF j = i THEN Frac(1, 2) ELSE Frac(1, 2 * (n - 1))],
      [j \in 1..n |-> IF j = (i % n) + 1 THEN ROne ELSE RZero] }

PopValues == {Rat(0), Rat(7), Rat(1000)}

PpIdle ==
    /\ ppCountries = <<>>
    /\ ppMatrix = <<>>
    /\ ppInitPop = <<>>
    /\ ppPop = <<>>
    /\ ppStep = -1

\* one forecast step of the application
PpPropagateApp ==
    /\ ppStep >= 0 /\ ppStep < PropSteps
    /\ ppPop' = propagatePopulation(ppPop, ppMatrix, ppCountries)
    /\ ppStep' = ppStep + 1
    /\ UNCHANGED <<ppCountries, ppMatrix, ppInitPop>>
    /\ UNCHANGED <<yxVars, tmVars, stVars, enVars, appVars, hpVars>>

\* one forecast step of the worker
PpPropagateWorker ==
    /\ ppStep >= 0 /\ ppStep < PropSteps
    /\ ppPop' = propagate(ppPop, ppMatrix, ppCountries)
    /\ ppStep' = ppStep + 1
    /\ UNCHANGED <<ppCountries, ppMatrix, ppInitPop>>
    /\ UNCHANGED <<yxVars, tmVars, stVars, enVars, appVars, hpVars>>

PpNext == PpPropagateApp \/ PpPropagateWorker

(***************************************************************************)
(* Ensemble statistics: the reduction of the member values of one location *)
(* at one step to mean, lower and upper (worker and generatePredictions).  *)
(* Member values are whole numbers of the model's unit.                    *)
(***************************************************************************)
\* largest number of members the statistics are taken over
MaxMembers == 41

\* Math.floor(len * 0.025)
LowerIndex(len) == (len * 25) \div 1000

\* Math.floor(len * 0.975), the mutant that takes the 2.5th percentile twice
UpperIndex_Low(len) == (len * 25) \div 1000

\* Math.floor(len * 0.975)
UpperIndex(len) == (len * 975) \div 1000

\* vals[k] ?? 0 of a JavaScript array (k counts from 0)
AtOrZero(vals, k) == IF (k + 1) \in DOMAIN vals THEN vals[k + 1] ELSE 0

RECURSIVE SumSeq(_)
\* vals.reduce((a, b) => a + b, 0)
SumSeq(s) == IF s = <<>> THEN 0 ELSE SumSeq(SubSeq(s, 1, Len(s) - 1)) + s[Len(s)]

\* Math.max(1, n)
MaxOne(n) == IF n > 1 THEN n ELSE 1

\* m, l and u of lines 91-93 for the sorted vals and len, the mean as the
\* exact quotient <<sum, len>> in lowest terms
workerStatsOf(vals, len) ==
    [mean |-> Frac(SumSeq(vals), len),
     lower |-> AtOrZero(vals, LowerIndex(len)),
     upper |-> AtOrZero(vals, UpperIndex(len))]

\* the worker's statistics of one location (lines 89-93)
workerStats(memberVals) ==
    workerStatsOf(SortAsc(memberVals), MaxOne(Len(memberVals)))

\* mean[country], lower[country] and upper[country] of lines 956-958 for the
\* sorted values; values is never empty there (ensembleSize >= 10)
appStatsOf(values) ==
    [mean |-> Frac(SumSeq(values), Len(values)),
     lower |-> values[LowerIndex(Len(values)) + 1],
     upper |-> values[UpperIndex(Len(values)) + 1]]

\* the statistics of generatePredictions of one location (lines 953-958)
appStats(memberVals) == appStatsOf(SortAsc(memberVals))

\* member values of one location, in the order the members were sampled: the
\* model draws numLow members of value low among members of value high, the
\* low ones first, last or in the middle
MemberValues(n, numLow, low, high, place) ==
    [s \in 1..n |->
        IF place = "first" THEN (IF s <= numLow THEN low ELSE high)
        ELSE IF place = "last" THEN (IF s > n - numLow THEN low ELSE high)
        ELSE (IF s > (n - numLow) \div 2 /\ s <= (n - numLow) \div 2 + numLow
              THEN low ELSE high)]

StatLevels == {<<0, 100>>, <<40, 41>>}

StIdle ==
    /\ stVals = <<>>
    /\ stResult = [mean |-> RZero, lower |-> 0, upper |-> 0]
    /\ stPc = "idle"

\* lines 87-97 of the worker for one location
StWorkerStats ==
    /\ stPc = "input"
    /\ stResult' = workerStats(stVals)
    /\ stPc' = "worker"
    /\ UNCHANGED <<stVals, yxVars, tmVars, ppVars, enVars, appVars, hpVars>>

\* lines 948-959 of generatePredictions for one location
StAppStats ==
    /\ stPc = "input"
    /\ stResult' = appStats(stVals)
    /\ stPc' = "app"
    /\ UNCHANGED <<stVals, yxVars, tmVars, ppVars, enVars, appVars, hpVars>>

StNext == StWorkerStats \/ StAppStats

(***************************************************************************)
(* EnsembleSampler: the worker (seeded generator, perturbRow, the step/     *)
(* member loop) and the sampler generatePredictions runs on the main       *)
(* thread.  The code computes in IEEE doubles; the model keeps              *)
(* probabilities to the thousandth and populations to the whole unit,      *)
(* draws to the sixteenth and logarithms to the tenth, rounding where the  *)
(* code divides.                                                           *)
(***************************************************************************)
\* 2^16: a 32-bit generator state is the pair <<high half, low half>>
Limb == 65536

\* state = (1664525 * state + 1013904223) >>> 0
LcgMultiplier == 1664525

LcgIncrement == 1013904223

\* (state * 31 + seed.charCodeAt(i)) >>> 0
SeedMultiplier == 31

\* the seed loop of the worker, from character i on; seed is the sequence
\* of the string's character codes
RECURSIVE SeedLoop(_, _, _)
SeedLoop(state, seed, i) ==
    IF i > Len(seed) THEN state
    ELSE LET lo == state[2] * SeedMultiplier + seed[i]
             hi == state[1] * SeedMultiplier + (lo \div Limb)
         IN  SeedLoop(<<hi % Limb, lo % Limb>>, seed, i + 1)

\* let state = 0; for (...) state = ...; if (state === 0) state = 1
SeedToState(seed) ==
    LET state == SeedLoop(<<0, 0>>, seed, 1)
    IN  IF state = <<0, 0>> THEN <<0, 1>> ELSE state

\* state = (1664525 * state + 1013904223) >>> 0 on the two halves
LcgNext(state) ==
    LET lo == state[2] * (LcgMultiplier % Limb) + (LcgIncrement % Limb)
        hi == state[1] * (LcgMultiplier % Limb) + state[2] * (LcgMultiplier \div Limb)
                + (LcgIncrement \div Limb) + (lo \div Limb)
    IN  <<hi % Limb, lo % Limb>>

\* (state & 0xffffffff) / 4294967295 in sixteenths, rounded down: the bitwise
\* and reads the state as a signed 32-bit integer, so a state of 2^31 or more
\* gives a negative draw
LcgDraw(state) ==
    IF state[1] >= Limb \div 2 THEN (state[1] - Limb) \div (Limb \div 16)
    ELSE state[1] \div (Limb \div 16)

\* Math.random: the engine's generator is not part of the program and its
\* state is hidden.  The model stands a generator of three states in for it,
\* which may be in any of them when a run starts.  Its period does not
\* divide the number of draws one matrix takes, so the members of a step get
\* different matrices.
MathRandomStates == {0, 1, 2}

MathRandomNext(s) == (s + 1) % 3

\* the draw of Math.random in sixteenths: 3/16 in state 0, 12/16 in state 1,
\* 7/16 in state 2
MathRandomDraw(s) == CASE s = 0 -> 3 [] s = 1 -> 12 [] s = 2 -> 7

\* if (seed)
SeedGiven(seed) == seed # <<>>

\* the generator rng is <<"lcg", hi, lo>> when a seed was given, else
\* <<"math", s, 0>>; <<"draws", list, k>> is Math.random after k calls when
\* it returns the listed draws in turn.  One call of rng(): the state after it
RngNext(r) ==
    CASE r[1] = "lcg" -> LET n == LcgNext(<<r[2], r[3]>>) IN <<"lcg", n[1], n[2]>>
      [] r[1] = "math" -> <<"math", MathRandomNext(r[2]), 0>>
      [] r[1] = "draws" -> <<"draws", r[2], r[3] + 1>>

\* the value the call that led to state r returned, in sixteenths
RngValue(r) ==
    CASE r[1] = "lcg" -> LcgDraw(<<r[2], r[3]>>)
      [] r[1] = "math" -> MathRandomDraw(r[2])
      [] r[1] = "draws" -> r[2][((r[3] - 1) % Len(r[2])) + 1]

\* x is computed here rather than where it is first needed: the checker
\* evaluates a definition on demand, and a chain of pending generator states
\* or populations would be computed one inside the other
Evaluated(x) == x = x

\* x, computed
Forced(x) == IF Evaluated(x) THEN x ELSE x

RECURSIVE RngAfter(_, _)
RECURSIVE RngAfterHalf(_, _)
\* the state after k calls, half of the calls at a time
RngAfter(r, k) ==
    IF k = 0 THEN r
    ELSE IF k = 1 THEN RngNext(r)
    ELSE RngAfterHalf(RngAfter(r, k \div 2), k - (k \div 2))

\* the state after the other half of the calls
RngAfterHalf(half, rest) ==
    IF Evaluated(half) THEN RngAfter(half, rest) ELSE half

\* -Math.log(Math.max(u, 1e-12)) in tenths for a draw u of d sixteenths,
\* taken at the middle of the sixteenth; a negative draw is raised to 1e-12
NegLogTenths(d) ==
    IF d < 0 THEN 276
    ELSE CASE d = 0 -> 35 [] d = 1 -> 24 [] d = 2 -> 19 [] d = 3 -> 15
           [] d = 4 -> 13 [] d = 5 -> 11 [] d = 6 -> 9  [] d = 7 -> 8
           [] d = 8 -> 6  [] d = 9 -> 5  [] d = 10 -> 4 [] d = 11 -> 3
           [] d = 12 -> 2 [] d = 13 -> 2 [] d = 14 -> 1 [] d = 15 -> 1

\* a / b rounded to the nearest whole number, for a >= 0 and b > 0
RoundDiv(a, b) == (2 * a + b) \div (2 * b)

\* a rational of the model rounded to the nearest whole number
RoundUnit(x) == RoundDiv(x[1], x[2])

\* p * 1000 of a probability kept to the thousandth
Thousandths(p) == RoundUnit(RMul(p, Rat(1000)))

\* the number of draws one pass over the matrix takes: one per entry
MatrixDraws(baseMatrix) == SumSeq([i \in DOMAIN baseMatrix |-> Len(baseMatrix[i])])

\* alphas = Math.max(1e-6, p * 100), as weights: an entry of 0 weighs 1e-6,
\* which is below a thousandth of a row that has a positive entry and is the
\* whole weight in a row of zeros
alphasOf(p) ==
    IF \A j \in DOMAIN p : p[j] = 0 THEN [j \in DOMAIN p |-> 1] ELSE p

\* a value that is not of type number (null, undefined, a string)
NotNumber == <<>>

\* a row that is not an array (null, undefined, a number)
NotAnArray == << <<0, 0, 0>> >>

\* typeof p === 'number' ? p : 0
NumberOrZero(p) == IF p = NotNumber THEN RZero ELSE p

alphas(row) ==
    alphasOf([j \in DOMAIN row |-> Thousandths(NumberOrZero(row[j]))])

\* gammas = alphas.map(a => -Math.log(Math.max(rng(), 1e-12)) * a) with the
\* generator in state r before the row's draws
gammas(a, r) ==
    [j \in DOMAIN a |-> NegLogTenths(RngValue(RngAfter(r, j))) * a[j]]

\* the gammas returned as they are, without the division by their sum
gammasOver_Unscaled(g, s) ==
    [j \in DOMAIN g |-> Frac(g[j], 1000)]

\* gammas.map(g => g / s), to the thousandth
gammasOver(g, s) ==
    [j \in DOMAIN g |-> Frac(RoundDiv(g[j] * 1000, s), 1000)]

\* s is the sum of the gammas; it is positive, so "|| 1" never applies
gammasNormalised(g) == gammasOver(g, SumSeq(g))

\* perturbRow(row, 100) with the generator in state r before the row's draws
perturbRow(row, r) ==
    IF row = NotAnArray \/ row = <<>> THEN <<>>
    ELSE gammasNormalised(Forced(gammas(alphas(row), r)))

\* what the callback of baseMatrix.map returns for a row whose perturbRow is
\* pr (lines 71-80).  An empty pr comes from a row that is no array or is
\* empty; it has the length nCountries only when both are 0, and row.map
\* then gives the empty row again
perturbedOr(pr, row, nCountries) ==
    IF pr # <<>> THEN pr
    ELSE IF row # NotAnArray /\ Len(row) = nCountries THEN <<>>
    ELSE [k \in 1..MaxOne(nCountries) |-> Frac(1, MaxOne(nCountries))]

\* one row of perturbed
perturbedRow(row, nCountries, r) == perturbedOr(perturbRow(row, r), row, nCountries)

\* baseMatrix.map(row => ...), rows in order
perturbMatrix(baseMatrix, nCountries, r) ==
    [i \in DOMAIN baseMatrix |->
        perturbedRow(baseMatrix[i], nCountries,
                     RngAfter(r, SumSeq([k \in 1..(i - 1) |-> Len(baseMatrix[k])])))]

\* a population vector kept to the whole unit
RoundPop(pop) == [c \in DOMAIN pop |-> Rat(RoundUnit(pop[c]))]

\* e && typeof e[country] === 'number' ? e[country] : 0, as a whole number
MemberValue(e, country) == IF country \in DOMAIN e THEN e[country][1] ELSE 0

\* nextPop of the member whose matrix is perturbed
nextPop(currentPop, perturbed, countries) ==
    IF Evaluated(perturbed)
    THEN RoundPop(propagate(currentPop, perturbed, countries))
    ELSE currentPop

\* ensembleValues of the step that starts from currentPop with the generator
\* in state r (lines 67-85)
ensembleValues(currentPop, baseMatrix, countries, ensembleSize, r) ==
    [s \in 1..MaxOne(ensembleSize) |->
        nextPop(currentPop,
                perturbMatrix(baseMatrix, Len(countries),
                              RngAfter(r, (s - 1) * MatrixDraws(baseMatrix))),
                countries)]

\* the statistics of every location (lines 88-97)
workerStatsAll(values, countries) ==
    IF Evaluated(values)
    THEN [c \in SeqToSet(countries) |->
            workerStats([s \in DOMAIN values |-> MemberValue(values[s], c)])]
    ELSE <<>>

\* mean, lower and upper as the objects the loop pushes
Pushed(stats, countries) ==
    IF Evaluated(stats)
    THEN [mean |-> [c \in SeqToSet(countries) |-> Rat(RoundUnit(stats[c].mean))],
          lower |-> [c \in SeqToSet(countries) |-> Rat(stats[c].lower)],
          upper |-> [c \in SeqToSet(countries) |-> Rat(stats[c].upper)]]
    ELSE <<>>

\* the body of the worker's step loop (lines 67-97): mean, lower and upper
\* of the step that starts from currentPop with the generator in state r
workerStep(currentPop, baseMatrix, countries, ensembleSize, r) ==
    Pushed(workerStatsAll(
               ensembleValues(currentPop, baseMatrix, countries, ensembleSize, r),
               countries),
           countries)

RECURSIVE workerLoop(_, _, _, _, _, _, _, _)
RECURSIVE workerLoopPush(_, _, _, _, _, _, _, _)
\* for (let step = 1; step <= Math.max(0, steps); step++) { ... }
workerLoop(step, msg, currentPop, r, results, baseMatrix, countries, ensembleSize) ==
    IF step > msg.steps THEN results
    ELSE workerLoopPush(step, msg,
                        workerStep(currentPop, baseMatrix, countries, ensembleSize, r),
                        RngAfter(r, MaxOne(ensembleSize) * MatrixDraws(baseMatrix)),
                        results, baseMatrix, countries, ensembleSize)

\* results.push({ year, mean, lower, upper }); currentPop = mean, and the
\* next pass
workerLoopPush(step, msg, st, rNext, results, baseMatrix, countries, ensembleSize) ==
    IF Evaluated(st) /\ Evaluated(rNext)
    THEN workerLoop(step + 1, msg, st.mean, rNext,
                    Append(results, [year |-> msg.startYear + step,
                                     mean |-> st.mean, lower |-> st.lower,
                                     upper |-> st.upper]),
                    baseMatrix, countries, ensembleSize)
    ELSE results

\* the results without the entry of the start year
workerResults_NoStart(msg, r) ==
    workerLoop(1, msg, msg.initPop, r, <<>>, msg.finalAvgMatrix,
               msg.selectedCountries, msg.ensembleSize)

\* self.onmessage: the results posted for message msg, with the generator
\* rng in state r
workerResults(msg, r) ==
    workerLoop(1, msg, msg.initPop, r,
               << [year |-> msg.startYear, mean |-> msg.initPop,
                   lower |-> msg.initPop, upper |-> msg.initPop] >>,
               msg.finalAvgMatrix, msg.selectedCountries, msg.ensembleSize)

\* (Math.random() - 0.5) * 0.02 in thousandths for a draw of d sixteenths,
\* taken at the middle of the sixteenth and rounded down
NoiseThousandths(d) == ((2 * d - 15) * 5) \div 8

\* Math.max(0, v)
MaxZero(v) == IF v > 0 THEN v ELSE 0

\* row.map(val => Math.max(0, val + noise)) in thousandths (lines 924-927)
\* with the generator in state r before the row's draws
noisyValues(row, r) ==
    [j \in DOMAIN row |->
        MaxZero(Thousandths(row[j]) + NoiseThousandths(RngValue(RngAfter(r, j))))]

\* if (sum > 0) perturbedMatrix[i] = row.map(v => v / sum)
rowOver(raw, sum) ==
    IF sum > 0 THEN [j \in DOMAIN raw |-> Frac(RoundDiv(raw[j] * 1000, sum), 1000)]
    ELSE [j \in DOMAIN raw |-> Frac(raw[j], 1000)]

rowNormalised(raw) == rowOver(raw, SumSeq(raw))

\* one row of perturbedMatrix (lines 923-935)
noisyRow(row, r) == rowNormalised(Forced(noisyValues(row, r)))

\* perturbedMatrix of one member
noisyMatrix(avgMat, r) ==
    [i \in DOMAIN avgMat |->
        noisyRow(avgMat[i], RngAfter(r, SumSeq([k \in 1..(i - 1) |-> Len(avgMat[k])])))]

RECURSIVE propagateTimes(_, _, _, _)
RECURSIVE propagateRest(_, _, _, _)
\* for (let s = 0; s < step; s++) currentPop = propagatePopulation(...)
propagateTimes(currentPop, matrix, countries, step) ==
    IF step = 0 THEN currentPop
    ELSE propagateRest(RoundPop(propagatePopulation(currentPop, matrix, countries)),
                       matrix, countries, step - 1)

\* the passes that are left after one
propagateRest(newPop, matrix, countries, step) ==
    IF Evaluated(newPop) THEN propagateTimes(newPop, matrix, countries, step)
    ELSE newPop

\* p[country] || 0, as a whole number
ValueOrZero(p, country) == IF country \in DOMAIN p THEN p[country][1] ELSE 0

\* currentPop of the member whose matrix is perturbedMatrix, after step passes
memberPop(initPop, perturbedMatrix, countries, step) ==
    IF Evaluated(perturbedMatrix)
    THEN propagateTimes(initPop, perturbedMatrix, countries, step)
    ELSE initPop

\* predictions of one step (lines 918-946): every member starts from initPop
\* and applies its own matrix step times
memberPredictions(step, initPop, avgMat, countries, ensembleSize, r) ==
    [member \in 1..ensembleSize |->
        memberPop(initPop,
                  noisyMatrix(avgMat, RngAfter(r, (member - 1) * MatrixDraws(avgMat))),
                  countries, step)]

\* the statistics of every location (lines 952-959)
appStatsAll(values, countries) ==
    IF Evaluated(values)
    THEN [c \in SeqToSet(countries) |->
            appStats([member \in DOMAIN values |-> ValueOrZero(values[member], c)])]
    ELSE <<>>

\* the body of the step loop of generatePredictions (lines 918-961)
mainThreadStep(step, initPop, avgMat, countries, ensembleSize, r) ==
    Pushed(appStatsAll(
               memberPredictions(step, initPop, avgMat, countries, ensembleSize, r),
               countries),
           countries)

RECURSIVE mainThreadLoop(_, _, _, _, _, _, _, _)
RECURSIVE mainThreadLoopPush(_, _, _, _, _, _, _, _, _)
\* for (let step = 0; step <= steps; step++) { ... }
mainThreadLoop(step, steps, initPop, avgMat, countries, ensembleSize, r, forwardResults) ==
    IF step > steps THEN forwardResults
    ELSE mainThreadLoopPush(step, steps, initPop, avgMat, countries, ensembleSize,
                            mainThreadStep(step, initPop, avgMat, countries,
                                           ensembleSize, r),
                            RngAfter(r, ensembleSize * MatrixDraws(avgMat)),
                            forwardResults)

\* forwardResults.push({ mean, lower, upper }), and the next pass
mainThreadLoopPush(step, steps, initPop, avgMat, countries, ensembleSize, st, rNext, forwardResults) ==
    IF Evaluated(st) /\ Evaluated(rNext)
    THEN mainThreadLoop(step + 1, steps, initPop, avgMat, countries, ensembleSize,
                        rNext, Append(forwardResults, st))
    ELSE forwardResults

\* forwardResults of the sampler on the main thread (generatePredictions of
\* App.js, and the fallback of the version that tries the worker first)
mainThreadResults(initPop, avgMat, countries, ensembleSize, steps, r) ==
    mainThreadLoop(0, steps, initPop, avgMat, countries, ensembleSize, r, <<>>)

\* seed strings "", "a" and "b" as character codes
EnSeeds == {<<>>, <<97>>, <<98>>}

\* the two locations of the ensemble runs
EnCountries == SubSeq(CountryNames, 1, 2)

\* averaged matrices handed to the sampler: an even one, and one with an
\* entry of 0 and an identity row
EnMatrices ==
    { << <<Frac(1, 2), Frac(1, 2)>>, <<Frac(1, 2), Frac(1, 2)>> >>,
      << <<Frac(9, 10), Frac(1, 10)>>, <<RZero, ROne>> >> }

EnInitPop ==
    [c \in SeqToSet(EnCountries) |->
        IF c = EnCountries[1] THEN Rat(100000) ELSE Rat(50000)]

\* the smallest ensemble size the slider offers, and the one the model runs
EnsembleSizeMin == 10

\* most forecast steps of one run
EnMaxSteps == 2

\* lines 15-28 of the worker: the generator a message with this seed gets;
\* s0 is the state of the worker's Math.random
workerRng(seed, s0) ==
    IF SeedGiven(seed)
    THEN <<"lcg", SeedToState(seed)[1], SeedToState(seed)[2]>>
    ELSE <<"math", s0, 0>>

\* the mean, lower and upper sequences of a result list
Bands(results) ==
    [k \in DOMAIN results |-> <<results[k].mean, results[k].lower, results[k].upper>>]

\* the observer's memory of past runs: the new run, and one earlier run
Remember(history, run) ==
    IF Len(history) < 2 THEN {Append(history, run)}
    ELSE {<<history[1], run>>, <<history[2], run>>}

\* no ensemble is run in the other components' specifications
EnIdle ==
    /\ enMatrix = <<>>
    /\ enSteps = -1
    /\ enHistory = <<>>

\* the message runEnsembleWorker posts
workerMessage(matrix, steps, seed) ==
    [finalAvgMatrix |-> matrix, initPop |-> EnInitPop,
     selectedCountries |-> EnCountries, steps |-> steps,
     ensembleSize |-> EnsembleSizeMin, seed |-> seed, startYear |-> ExpectedFrom]

\* the bands of every run the model makes, computed once: by the worker
WorkerBands ==
    Forced([matrix \in EnMatrices, steps \in 1..EnMaxSteps, seed \in EnSeeds,
            s0 \in MathRandomStates |->
               Bands(workerResults(workerMessage(matrix, steps, seed),
                                   workerRng(seed, s0)))])

\* ... and by the sampler on the main thread
MainThreadBands ==
    Forced([matrix \in EnMatrices, steps \in 1..EnMaxSteps,
            s0 \in MathRandomStates |->
               Bands(mainThreadResults(EnInitPop, matrix, EnCountries,
                                       EnsembleSizeMin, steps, <<"math", s0, 0>>))])

\* a run sampled by the worker: runEnsembleWorker posts the message and
\* resolves with e.data.results
EnWorkerRun ==
    /\ enSteps >= 0
    /\ \E seed \in EnSeeds, s0 \in MathRandomStates :
          LET run == [seed |-> seed, matrix |-> enMatrix, initPop |-> EnInitPop,
                      ensembleSize |-> EnsembleSizeMin, steps |-> enSteps,
                      sampler |-> "worker", rng |-> workerRng(seed, s0),
                      bands |-> WorkerBands[enMatrix, enSteps, seed, s0]]
          IN  enHistory' \in Remember(enHistory, run)
    /\ UNCHANGED <<enMatrix, enSteps, yxVars, tmVars, ppVars, stVars, appVars, hpVars>>

\* a run sampled on the main thread: generatePredictions of App.js, or the
\* fallback after the worker failed; rngSeed is set but the sampler draws
\* from Math.random
EnMainThreadRun ==
    /\ enSteps >= 0
    /\ \E seed \in EnSeeds, s0 \in MathRandomStates :
          LET run == [seed |-> seed, matrix |-> enMatrix, initPop |-> EnInitPop,
                      ensembleSize |-> EnsembleSizeMin, steps |-> enSteps,
                      sampler |-> "main", rng |-> <<"math", s0, 0>>,
                      bands |-> MainThreadBands[enMatrix, enSteps, s0]]
          IN  enHistory' \in Remember(enHistory, run)
    /\ UNCHANGED <<enMatrix, enSteps, yxVars, tmVars, ppVars, stVars, appVars, hpVars>>

EnNext == EnWorkerRun \/ EnMainThreadRun

(***************************************************************************)
(* AppInner: data loading, the parameter controls and the model run        *)
(*                                                                         *)
(* A year stands for the row {year, data} of that year; the rows all hold  *)
(* the same two locations.  A published result is represented by what it   *)
(* was computed from: the prediction records by their year, phase, sampler *)
(* and whether the index had a row to compare with, the averaged matrix by *)
(* the data years it was trained on, the metrics by the years compared.    *)
(* React applies the state updates of one handler together, so a handler   *)
(* is one step; the code after an await is a step of its own and works on  *)
(* the values the handler captured when it was called.                     *)
(***************************************************************************)
\* number of data years the loader finds at most
NumLoadYears == 3

\* first year of the canonical training data; the years the model loads
\* start here, so every loaded row is training data
CanonicalFrom == 2002

LoadYears == CanonicalFrom .. (CanonicalFrom + NumLoadYears - 1)

\* the locations every loaded row holds
LoadCountries == {CountryNames[1], CountryNames[2]}

\* times React.StrictMode runs the mount effect in a development build
StrictModeMounts == 2

\* most runs started in one behaviour
MaxRuns == 3

SetMax(s) == CHOOSE x \in s : \A y \in s : y <= x

SetMin(s) == CHOOSE x \in s : \A y \in s : x <= y

\* maxInput of the validation effect; 0 stands for null
MaxInput ==
    IF inputMode = "single" THEN inputYear
    ELSE IF inputYearsMulti # {} THEN SetMax(inputYearsMulti)
    ELSE 0

\* a validation that lets a target year equal to the latest input year pass
targetValidationError_AllowEqual ==
    IF MaxInput = 0 \/ targetYear = 0 THEN FALSE
    ELSE targetYear < MaxInput

\* the validation effect runs after every render that changed its inputs, so
\* targetValidationError is a function of them
targetValidationError ==
    IF MaxInput = 0 \/ targetYear = 0 THEN FALSE
    ELSE targetYear <= MaxInput

hasInput ==
    IF inputMode = "single" THEN inputYear # 0 ELSE inputYearsMulti # {}

\* the disabled attribute of the Run button
RunDisabled ==
    \/ modelRunning
    \/ Cardinality(selectedCountries) < 2
    \/ targetValidationError
    \/ loadingData

\* the two early returns of generatePredictions
EarlyReturn ==
    \/ ~hasInput
    \/ targetYear = 0
    \/ migrationData = {}
    \/ Cardinality(selectedCountries) < 2
    \/ targetValidationError

startYr == IF inputMode = "single" THEN inputYear ELSE SetMax(inputYearsMulti)

\* what the handler called now has captured of the state
Captured(id) ==
    [id |-> id, startYr |-> startYr, targetYear |-> targetYear,
     yearIndex |-> yearIndex, migrationData |-> migrationData]

\* a fallback whose loop starts at step 1 and pushes no entry for the start
\* year
forwardResultsLen_FromOne(sampler, steps) ==
    IF sampler = "worker" THEN 1 + MaxZero(steps) ELSE MaxZero(steps)

\* forwardResults.length: the worker pushes the start year and then one entry
\* per step from 1 to Math.max(0, steps); the loops on the main thread push
\* one entry per step from 0 to steps
forwardResultsLen(sampler, steps) ==
    IF sampler = "worker" THEN 1 + MaxZero(steps) ELSE MaxZero(steps + 1)

\* allPredictions of a run whose forwardResults came from the given sampler;
\* computed says that forwardResults[step] exists, so that the prediction
\* holds the sampler's bands and not the zeros that stand in for them
allPredictions(run, sampler) ==
    [k \in 1..(run.targetYear - run.startYr + 1) |->
        [year |-> run.startYr + k - 1,
         phase |-> IF k = 1 THEN "input" ELSE "prediction",
         sampler |-> sampler,
         computed |-> k <= forwardResultsLen(sampler, run.targetYear - run.startYr),
         actualData |-> (run.startYr + k - 1) \in run.yearIndex]]

\* the years of validationPredictions
validationPredictions(preds) ==
    {preds[k].year : k \in {j \in DOMAIN preds :
        preds[j].phase = "prediction" /\ preds[j].actualData}}

AppIdle ==
    /\ migrationData = {} /\ years = {} /\ allCountries = {}
    /\ yearIndex = {} /\ selectedCountries = {}
    /\ inputMode = "single" /\ inputYear = 0 /\ inputYearsMulti = {}
    /\ targetYear = 0
    /\ loadingData = TRUE /\ modelRunning = FALSE /\ resultsReady = FALSE
    /\ modelStage = <<>>
    /\ predictions = <<>> /\ averageTransitionMatrix = {}
    /\ validationMetrics = {}
    /\ loadsPending = -1
    /\ timers = 0 /\ awaiting = {} /\ runCount = 0 /\ resultsOf = 0
    /\ alerts = 0

\* one call of loadData comes to its end; found are the years whose file was
\* fetched and parsed
LoadData ==
    /\ loadsPending > 0
    /\ loadsPending' = loadsPending - 1
    /\ loadingData' = FALSE
    /\ \E found \in SUBSET LoadYears :
          IF found = {}
          THEN /\ migrationData' = {} /\ years' = {} /\ allCountries' = {}
               /\ UNCHANGED <<yearIndex, inputYear, targetYear>>
          ELSE /\ migrationData' = found /\ years' = found
               /\ allCountries' = LoadCountries
               /\ yearIndex' = found
               /\ inputYear' = SetMin(found)
               /\ targetYear' = SetMax(found)
    /\ UNCHANGED <<selectedCountries, inputMode, inputYearsMulti>>
    /\ UNCHANGED <<resultVars, runVars, yxVars, tmVars, ppVars, stVars, enVars, hpVars>>

\* the country grid: a click on a location selects or deselects it; with two
\* locations the limit of six selected is never met
ToggleCountry ==
    /\ \E country \in allCountries :
          selectedCountries' =
              IF country \in selectedCountries
              THEN selectedCountries \ {country}
              ELSE selectedCountries \cup {country}
    /\ UNCHANGED <<inputMode, inputYear, inputYearsMulti, targetYear>>
    /\ UNCHANGED <<dataVars, resultVars, runVars, yxVars, tmVars, ppVars, stVars, enVars, hpVars>>

SetInputMode ==
    /\ \E mode \in {"single", "multiple"} : inputMode' = mode
    /\ UNCHANGED <<selectedCountries, inputYear, inputYearsMulti, targetYear>>
    /\ UNCHANGED <<dataVars, resultVars, runVars, yxVars, tmVars, ppVars, stVars, enVars, hpVars>>

\* the select shown in single mode
SetInputYear ==
    /\ inputMode = "single"
    /\ \E y \in years : inputYear' = y
    /\ UNCHANGED <<selectedCountries, inputMode, inputYearsMulti, targetYear>>
    /\ UNCHANGED <<dataVars, resultVars, runVars, yxVars, tmVars, ppVars, stVars, enVars, hpVars>>

\* the multiple select shown in multiple mode
SetInputYearsMulti ==
    /\ inputMode = "multiple"
    /\ years # {}
    /\ \E selected \in SUBSET years : inputYearsMulti' = selected
    /\ UNCHANGED <<selectedCountries, inputMode, inputYear, targetYear>>
    /\ UNCHANGED <<dataVars, resultVars, runVars, yxVars, tmVars, ppVars, stVars, enVars, hpVars>>

SetTargetYear ==
    /\ \E y \in years : targetYear' = y
    /\ UNCHANGED <<selectedCountries, inputMode, inputYear, inputYearsMulti>>
    /\ UNCHANGED <<dataVars, resultVars, runVars, yxVars, tmVars, ppVars, stVars, enVars, hpVars>>

\* the stages in an order the code does not have: metrics before the ensemble
StageLabels_MetricsFirst ==
    << "Loading training data...", "Building transition matrices...",
       "Averaging transition matrices...", "Calculating metrics...",
       "Running ensemble predictions...", "Generating predictions...",
       "Complete!" >>

\* the arguments of the calls of setModelStage in generatePredictions, in the
\* order of the calls
StageLabels ==
    << "Loading training data...", "Building transition matrices...",
       "Averaging transition matrices...", "Running ensemble predictions...",
       "Generating predictions...", "Calculating metrics...", "Complete!" >>

\* the calls up to and including the one with this label
StagesUpTo(label) ==
    SubSeq(StageLabels, 1, CHOOSE k \in DOMAIN StageLabels : StageLabels[k] = label)

\* the calls after the one with this label
StagesAfter(label) ==
    SubSeq(StageLabels, Len(StagesUpTo(label)) + 1, Len(StageLabels))

\* a run that starts without clearing what the run before it published
ResetResults_Keep == UNCHANGED resultVars

\* the state updates every run starts with
ResetResults ==
    /\ resultsReady' = FALSE
    /\ predictions' = <<>>
    /\ averageTransitionMatrix' = {}
    /\ validationMetrics' = {}

\* a run that reports its results ready without having set the averaged matrix
Publish_NoMatrix(run, sampler, metricsBefore) ==
    /\ predictions' = allPredictions(run, sampler)
    /\ validationMetrics' = metricsBefore
    /\ resultsReady' = TRUE
    /\ UNCHANGED averageTransitionMatrix

\* the state updates a run ends with when nothing was thrown
Publish(run, sampler, metricsBefore) ==
    LET preds == allPredictions(run, sampler)
    IN  /\ predictions' = preds
        /\ averageTransitionMatrix' = run.migrationData
        /\ validationMetrics' =
              IF validationPredictions(preds) # {}
              THEN validationPredictions(preds)
              ELSE metricsBefore
        /\ resultsReady' = TRUE

\* catch and finally of a run that threw; the throw for a missing initial
\* population row comes after the stage "Averaging transition matrices..."
Failed ==
    /\ modelRunning' = FALSE
    /\ alerts' = alerts + 1
    /\ timers' = timers + 1

\* a click on Run, up to the await of runEnsembleWorker or to the throw
generatePredictions ==
    /\ ~RunDisabled
    /\ IF EarlyReturn
       THEN UNCHANGED <<resultVars, runVars>>
       ELSE /\ runCount < MaxRuns
            /\ runCount' = runCount + 1
            /\ resultsOf' = runCount + 1
            /\ ResetResults
            /\ IF startYr \notin yearIndex
               THEN /\ Failed
                    /\ modelStage' = StagesUpTo("Averaging transition matrices...")
                    /\ UNCHANGED awaiting
               ELSE /\ modelRunning' = TRUE
                    /\ modelStage' = StagesUpTo("Running ensemble predictions...")
                    /\ awaiting' = awaiting \cup {Captured(runCount + 1)}
                    /\ UNCHANGED <<timers, alerts>>
    /\ UNCHANGED <<dataVars, inputVars, yxVars, tmVars, ppVars, stVars, enVars, hpVars>>

\* worker.onmessage resolves the promise: the rest of generatePredictions,
\* which awaited in the stage "Running ensemble predictions..."
WorkerMessage ==
    /\ \E run \in awaiting :
          /\ awaiting' = awaiting \ {run}
          /\ Publish(run, "worker", validationMetrics)
          /\ resultsOf' = run.id
    /\ timers' = timers + 1
    /\ modelStage' = modelStage \o StagesAfter("Running ensemble predictions...")
    /\ UNCHANGED <<modelRunning, runCount, alerts>>
    /\ UNCHANGED <<dataVars, inputVars, yxVars, tmVars, ppVars, stVars, enVars, hpVars>>

\* worker.onerror rejects the promise: the main-thread fallback, then the
\* rest of generatePredictions
WorkerError ==
    /\ \E run \in awaiting :
          /\ awaiting' = awaiting \ {run}
          /\ Publish(run, "fallback", validationMetrics)
          /\ resultsOf' = run.id
    /\ timers' = timers + 1
    /\ modelStage' = modelStage \o StagesAfter("Running ensemble predictions...")
    /\ UNCHANGED <<modelRunning, runCount, alerts>>
    /\ UNCHANGED <<dataVars, inputVars, yxVars, tmVars, ppVars, stVars, enVars, hpVars>>

\* setTimeout(() => setModelRunning(false), 500) comes due
ModelRunningTimer ==
    /\ timers > 0
    /\ timers' = timers - 1
    /\ modelRunning' = FALSE
    /\ UNCHANGED <<modelStage, awaiting, runCount, resultsOf, alerts>>
    /\ UNCHANGED <<dataVars, inputVars, resultVars, yxVars, tmVars, ppVars, stVars, enVars, hpVars>>

RunNext ==
    \/ LoadData
    \/ ToggleCountry
    \/ SetInputMode
    \/ SetInputYear
    \/ SetInputYearsMulti
    \/ SetTargetYear
    \/ generatePredictions
    \/ WorkerMessage
    \/ WorkerError
    \/ ModelRunningTimer

\* a click on Run in the version that samples on the main thread: the whole
\* handler, which awaits nothing
appGeneratePredictions ==
    /\ ~RunDisabled
    /\ IF EarlyReturn
       THEN UNCHANGED <<resultVars, runVars>>
       ELSE /\ runCount < MaxRuns
            /\ runCount' = runCount + 1
            /\ resultsOf' = runCount + 1
            /\ IF startYr \notin yearIndex
               THEN /\ ResetResults
                    /\ Failed
                    /\ modelStage' = StagesUpTo("Averaging transition matrices...")
               ELSE /\ Publish(Captured(runCount + 1), "main", {})
                    /\ modelStage' = StageLabels
                    /\ modelRunning' = TRUE
                    /\ timers' = timers + 1
                    /\ UNCHANGED alerts
            /\ UNCHANGED awaiting
    /\ UNCHANGED <<dataVars, inputVars, yxVars, tmVars, ppVars, stVars, enVars, hpVars>>

AppNext ==
    \/ LoadData
    \/ ToggleCountry
    \/ SetInputMode
    \/ SetInputYear
    \/ SetInputYearsMulti
    \/ SetTargetYear
    \/ appGeneratePredictions
    \/ ModelRunningTimer

(***************************************************************************)
(* The helpers of the model run: getPopulationStock, getFlows,             *)
(* calculateMetrics and averageTransitionMatrixFrom.  A behaviour is one   *)
(* call of one helper on arguments the initial state chooses.              *)
(***************************************************************************)
\* obj[h] = values[i] of parseCSV: a cell is undefined when the line has
\* fewer values than the header, else a string: empty, letters, or digits
\* with the number they spell
Cells ==
    {[text |-> "undefined", value |-> NaN], [text |-> "empty", value |-> NaN],
     [text |-> "letters", value |-> NaN],
     [text |-> "digits", value |-> Rat(0)], [text |-> "digits", value |-> Rat(7)]}

\* const headers = lines[0].split(","): the columns of the data files after
\* Country, in the order Object.values(row) lists them
Headers ==
    << "Inflows of foreign population by nationality(Total)",
       "Outflows of foreign population by nationality(Total)",
       "Stock of foreign population by nationality(Total)",
       "Stock of foreign-born population by country of birth(Total)" >>

\* Number.parseFloat(v)
parseFloat(v) == IF v.text = "digits" THEN v.value ELSE NaN

\* const n = Number.parseFloat(v); return Number.isFinite(n) ? n : 0
safeParseFloat(v) == IF parseFloat(v) = NaN THEN RZero ELSE parseFloat(v)

\* a || b of two cells: undefined and the empty string are falsy
CellOr(a, b) == IF a.text \in {"undefined", "empty"} THEN b ELSE a

\* if (row[h] !== undefined && row[h] !== "") stock = safeParseFloat(row[h]) || stock
StockCandidate(stock, cell) ==
    IF cell.text \in {"undefined", "empty"} \/ Falsy(safeParseFloat(cell))
    THEN stock
    ELSE safeParseFloat(cell)

\* numeric[numeric.length - 1] of Object.values(row).map(parseFloat)
\* .filter(Number.isFinite), or 0 when numeric is empty; the Country cell is
\* a name and is filtered out
LastNumeric(row) ==
    IF \A k \in DOMAIN Headers : parseFloat(row[Headers[k]]) = NaN THEN RZero
    ELSE parseFloat(row[Headers[
            CHOOSE k \in DOMAIN Headers :
                /\ parseFloat(row[Headers[k]]) # NaN
                /\ \A j \in DOMAIN Headers :
                      j > k => parseFloat(row[Headers[j]]) = NaN]])

\* the stock of one row: the candidates in turn, then the numeric cells
RowStock(row) ==
    LET stock == StockCandidate(StockCandidate(NaN, row[Headers[3]]), row[Headers[4]])
    IN  IF stock = NaN THEN LastNumeric(row) ELSE stock

\* yearData is [array |-> Array.isArray(yearData), rows |-> the row found for
\* each country that has one]
getPopulationStock(yearData, countries) ==
    [c \in SeqToSet(countries) |->
        IF ~yearData.array \/ c \notin DOMAIN yearData.rows THEN RZero
        ELSE RowStock(yearData.rows[c])]

getFlows(yearData, countries) ==
    [c \in SeqToSet(countries) |->
        IF ~yearData.array \/ c \notin DOMAIN yearData.rows
        THEN [inflow |-> RZero, outflow |-> RZero, stock |-> RZero]
        ELSE [inflow |-> safeParseFloat(yearData.rows[c][Headers[1]]),
              outflow |-> safeParseFloat(yearData.rows[c][Headers[2]]),
              stock |-> safeParseFloat(CellOr(yearData.rows[c][Headers[3]],
                                              yearData.rows[c][Headers[4]]))]]

\* the location the helpers are asked for
HpCountries == SubSeq(CountryNames, 1, 1)

\* year data: not an array, an array without a row for the location, and an
\* array with a row of any cells
YearDataInputs ==
    {[kind |-> "yearData", array |-> FALSE, rows |-> <<>>],
     [kind |-> "yearData", array |-> TRUE, rows |-> <<>>]}
      \cup {[kind |-> "yearData", array |-> TRUE, rows |-> rows] :
               rows \in [SeqToSet(HpCountries) -> [SeqToSet(Headers) -> Cells]]}

\* a pass that counts the point whenever the prediction has actual data
MetricPoint_CountAll(pred, country) ==
    [actual |-> IF pred.hasActual /\ country \in DOMAIN pred.actualData
                THEN pred.actualData[country] ELSE RZero,
     predicted |-> pred.predicted[country],
     lower |-> pred.lower[country],
     upper |-> pred.upper[country],
     counted |-> pred.hasActual]

\* one pass of the inner loop of calculateMetrics: actual, predicted, lower
\* and upper of the location, and whether the point is counted
MetricPoint(pred, country) ==
    [actual |-> IF pred.hasActual /\ country \in DOMAIN pred.actualData
                THEN pred.actualData[country] ELSE RZero,
     predicted |-> pred.predicted[country],
     lower |-> pred.lower[country],
     upper |-> pred.upper[country],
     counted |-> /\ pred.hasActual
                 /\ country \in DOMAIN pred.actualData
                 /\ RLt(RZero, pred.actualData[country])]

\* the passes of the two loops in their order: every location of the first
\* prediction, then of the second, ...
MetricPoints(predictionsList, selectedCountriesList) ==
    [p \in 1..(Len(predictionsList) * Len(selectedCountriesList)) |->
        MetricPoint(predictionsList[((p - 1) \div Len(selectedCountriesList)) + 1],
                    selectedCountriesList[((p - 1) % Len(selectedCountriesList)) + 1])]

\* Math.sqrt(x) of x >= 0, rounded down to a whole number
MathSqrt(x) ==
    Rat(CHOOSE r \in 0..(x[1] + 1) :
            /\ r * r * x[2] <= x[1]
            /\ (r + 1) * (r + 1) * x[2] > x[1])

\* the return statements without the test for totalPoints === 0: 0 / 0
MetricsFrom_NoGuard(points) ==
    LET counted == {p \in DOMAIN points : points[p].counted}
        error(p) == RSub(points[p].predicted, points[p].actual)
        totalAbsError ==
            RSum([p \in DOMAIN points |->
                    IF p \in counted THEN <<Abs(error(p)[1]), error(p)[2]>> ELSE RZero])
        coveredPoints ==
            Cardinality({p \in counted :
                            /\ RLe(points[p].lower, points[p].actual)
                            /\ RLe(points[p].actual, points[p].upper)})
    IN  IF counted = {}
        THEN [rmse |-> NaN, mae |-> NaN, coverage |-> NaN, totalPoints |-> 0]
        ELSE [rmse |-> RZero,
              mae |-> RDiv(totalAbsError, Rat(Cardinality(counted))),
              coverage |-> RMul(Frac(coveredPoints, Cardinality(counted)), Rat(100)),
              totalPoints |-> Cardinality(counted)]

\* the sums over the counted points and the two return statements
MetricsFrom(points) ==
    LET counted == {p \in DOMAIN points : points[p].counted}
        error(p) == RSub(points[p].predicted, points[p].actual)
        totalSquaredError ==
            RSum([p \in DOMAIN points |->
                    IF p \in counted THEN RMul(error(p), error(p)) ELSE RZero])
        totalAbsError ==
            RSum([p \in DOMAIN points |->
                    IF p \in counted THEN <<Abs(error(p)[1]), error(p)[2]>> ELSE RZero])
        totalPoints == Cardinality(counted)
        coveredPoints ==
            Cardinality({p \in counted :
                            /\ RLe(points[p].lower, points[p].actual)
                            /\ RLe(points[p].actual, points[p].upper)})
    IN  IF totalPoints = 0
        THEN [rmse |-> RZero, mae |-> RZero, coverage |-> RZero, totalPoints |-> 0]
        ELSE [rmse |-> MathSqrt(RDiv(totalSquaredError, Rat(totalPoints))),
              mae |-> RDiv(totalAbsError, Rat(totalPoints)),
              coverage |-> RMul(Frac(coveredPoints, totalPoints), Rat(100)),
              totalPoints |-> totalPoints]

calculateMetrics(predictionsList, selectedCountriesList) ==
    MetricsFrom(MetricPoints(predictionsList, selectedCountriesList))

\* predicted, lower and upper of one location: a band that holds an actual
\* value of 100 at its upper end, and one above it
MetricBands == {<<Rat(90), Rat(80), Rat(100)>>, <<Rat(130), Rat(120), Rat(140)>>}

\* the records of validationPredictions and of predictions: with or without
\* actualData, whose value for a location may be absent, 0 or 100
MetricPredictions ==
    {[predicted |-> [c \in SeqToSet(EnCountries) |-> band[c][1]],
      lower |-> [c \in SeqToSet(EnCountries) |-> band[c][2]],
      upper |-> [c \in SeqToSet(EnCountries) |-> band[c][3]],
      hasActual |-> actual # <<>>,
      actualData |-> actual] :
        band \in [SeqToSet(EnCountries) -> MetricBands],
        actual \in UNION {[present -> {RZero, Rat(100)}] :
                              present \in SUBSET SeqToSet(EnCountries)}}

\* most predictions one list holds
MaxPredictions == 2

\* the lists of predictions calculateMetrics is called with
MetricInputs ==
    {[kind |-> "predictions", list |-> list] :
        list \in UNION {[1..n -> MetricPredictions] : n \in 0..MaxPredictions}}

\* an average that divides by the number of locations
averageTransitionMatrixFrom_ByLocations(matrices, countries) ==
    IF matrices = <<>> THEN <<>>
    ELSE [i \in 1..Len(countries) |-> [j \in 1..Len(countries) |->
            RSum([t \in DOMAIN matrices |->
                    RDiv(matrices[t].matrix[i][j], Rat(Len(countries)))])]]

\* a sum of the listed matrices that is not divided by their number
averageTransitionMatrixFrom_Sum(matrices, countries) ==
    IF matrices = <<>> THEN <<>>
    ELSE [i \in 1..Len(countries) |-> [j \in 1..Len(countries) |->
            RSum([t \in DOMAIN matrices |-> EntryOrZero(matrices[t].matrix, i, j)])]]

\* null is <<>>; avg[i][j] += (tm.matrix[i]?.[j] ?? 0) / matrices.length for
\* every tm of the list in turn; every tm the model run lists has a matrix
averageTransitionMatrixFrom(matrices, countries) ==
    IF matrices = <<>> THEN <<>>
    ELSE [i \in 1..Len(countries) |-> [j \in 1..Len(countries) |->
            RSum([t \in DOMAIN matrices |->
                    RDiv(EntryOrZero(matrices[t].matrix, i, j), Rat(Len(matrices)))])]]

\* most matrices one list holds
MaxMatrices == 3

\* the lists of { year, matrix } averageTransitionMatrixFrom is called with:
\* matrices of the two locations, the identity among them
MatrixInputs ==
    {[kind |-> "matrices", list |-> list] :
        list \in UNION {[1..n -> [year : {CanonicalFrom},
                                  matrix : EnMatrices \cup
                                      {<< <<ROne, RZero>>, <<RZero, ROne>> >>}]] :
                           n \in 0..MaxMatrices}}

\* entries of a row handed to the worker: probabilities, and a value that
\* is not a number
RowEntries == {RZero, Frac(1, 10), Frac(1, 2), Frac(9, 10), ROne, NotNumber}

\* most entries of a row
MaxRowLen == 2

\* draws of one call of rng() in sixteenths: a negative draw of the seeded
\* generator, the lowest and the highest sixteenth, and one in between
RowDraws == {-8, 0, 7, 15}

\* the rows the callback of baseMatrix.map is called with: arrays of up to
\* MaxRowLen entries, the empty one among them, and a row that is no array;
\* rng() returns the listed draws
RowInputs ==
    {[kind |-> "row", row |-> row, nCountries |-> MaxRowLen, draws |-> draws] :
        row \in {NotAnArray} \cup UNION {[1..n -> RowEntries] : n \in 0..MaxRowLen},
        draws \in [1..MaxRowLen -> RowDraws]}

\* last year of the canonical training data
CanonicalTo == 2020

\* number of years the training stage is given data of at most
NumTrainYears == 4

\* the years a data file may be found for: the year before the canonical
\* training data begins, and the first years of it
TrainYears == (CanonicalFrom - 1) .. (CanonicalFrom + NumTrainYears - 2)

\* the elements of a set of years in ascending order
RECURSIVE Ascending(_)
Ascending(S) ==
    IF S = {} THEN <<>> ELSE <<SetMin(S)>> \o Ascending(S \ {SetMin(S)})

\* migrationData.filter(d => d.year >= 2002 && d.year <= 2020).sort(...)
canonicalTrainData(data) ==
    Ascending({y \in data : y >= CanonicalFrom /\ y <= CanonicalTo})

\* the loop of the multiple mode over expanded (lines 718-738).  A matrix is
\* represented by the year it is listed under and the year whose flows it
\* was estimated from; [y1, y2] of pairs is <<flowsOf, year>>
RECURSIVE MultipleLoop(_, _, _, _)
MultipleLoop(matrices, expanded, i, index) ==
    IF i > Len(expanded) - 1 THEN matrices
    ELSE MultipleLoop(
             IF /\ expanded[i + 1] - expanded[i] = 1
                /\ expanded[i] \in index
                /\ expanded[i + 1] \in index
             THEN Append(matrices, [year |-> expanded[i + 1], flowsOf |-> expanded[i]])
             ELSE matrices,
             expanded, i + 1, index)

\* the loop over canonicalTrainData (lines 744-765); t counts from 1 here,
\* and every row of the model has its data
RECURSIVE CanonicalLoop(_, _, _)
CanonicalLoop(matrices, canonical, t) ==
    IF t > Len(canonical) THEN matrices
    ELSE CanonicalLoop(
             Append(matrices, [year |-> canonical[t], flowsOf |-> canonical[t - 1]]),
             canonical, t + 1)

\* matrices of buildTrainingTransitionMatricesAndPairs; multipleYears is the
\* set of the years selected, which the select lists in ascending order;
\* yrs and index are the years and yearIndex of the component
buildTrainingTransitionMatricesAndPairs(mode, multipleYears, canonical, yrs, index) ==
    IF mode = "multiple" /\ multipleYears # {}
    THEN MultipleLoop(<<>>,
                      expandSelectedYearsWithAdjacents(Ascending(multipleYears), yrs),
                      1, index)
    ELSE IF Len(canonical) > 1 THEN CanonicalLoop(<<>>, canonical, 2)
    ELSE <<>>

\* transMatrices after the second call (lines 837-849)
transMatricesOr(built, canonical, yrs, index) ==
    IF built = <<>> /\ Len(canonical) > 1
    THEN buildTrainingTransitionMatricesAndPairs("single", {}, canonical, yrs, index)
    ELSE built

\* a training stage without the matrix of the start year
singleYearFallback_None(transMatrices, sampleYear, index) == transMatrices

\* transMatrices after lines 859-881: when there is nothing to average, the
\* matrix estimated from the row of sampleYear, if the index has that row
singleYearFallback(transMatrices, sampleYear, index) ==
    IF transMatrices = <<>> /\ sampleYear \in index
    THEN << [year |-> sampleYear, flowsOf |-> sampleYear] >>
    ELSE transMatrices

\* lines 883-913: the two throws, and else the matrices avgMat is made of
trainingOutcome(transMatrices, sampleYear, index) ==
    [transMatrices |-> transMatrices,
     thrown |-> IF sampleYear \notin index
                THEN "No initial population data available"
                ELSE IF transMatrices = <<>> THEN "No transition matrix available"
                ELSE "none"]

\* the training stage of generatePredictions (lines 819-913) for a call that
\* has passed the guards; sampleYear and startYr are the same year
trainingStage(arg) ==
    trainingOutcome(
        singleYearFallback(
            transMatricesOr(
                buildTrainingTransitionMatricesAndPairs(
                    arg.inputMode, arg.inputYearsMulti,
                    canonicalTrainData(arg.migrationData), arg.migrationData,
                    arg.migrationData),
                canonicalTrainData(arg.migrationData), arg.migrationData,
                arg.migrationData),
            arg.sampleYear, arg.migrationData),
        arg.sampleYear, arg.migrationData)

\* the state a run can read: the rows loaded (years and yearIndex hold the
\* same years), the mode and the years selected, which may be years the
\* current rows no longer hold; sampleYear is inputYear in single mode and
\* the latest selected year in multiple mode
TrainingInputs ==
    {arg \in [kind : {"training"}, migrationData : SUBSET TrainYears \ {{}},
              inputMode : {"single", "multiple"},
              inputYearsMulti : SUBSET TrainYears, sampleYear : TrainYears] :
        arg.inputMode = "multiple" =>
            /\ arg.inputYearsMulti # {}
            /\ arg.sampleYear = SetMax(arg.inputYearsMulti)}

\* ensembleValues of one step of the worker (lines 69-85) for the perturbed
\* matrices of its members, in exact arithmetic
membersOf(currentPop, perturbedOfMember, countries) ==
    [s \in DOMAIN perturbedOfMember |->
        propagate(currentPop, perturbedOfMember[s], countries)]

\* a mean that is the sum of the member values, not divided by their number
meanOf_Sum(values, countries) ==
    [c \in SeqToSet(countries) |->
        RSum([s \in DOMAIN values |-> PopOrZero(values[s], c)])]

\* mean of lines 87-97 in exact arithmetic: the member values of a location
\* add up to the same whatever their order
meanOf(values, countries) ==
    [c \in SeqToSet(countries) |->
        RDiv(RSum([s \in DOMAIN values |-> PopOrZero(values[s], c)]),
             Rat(MaxOne(Len(values))))]

\* most members of a step whose mean is computed exactly
MaxExactMembers == 2

\* most steps of a run whose means are computed exactly
MaxExactSteps == 2

\* perturbed matrices whose rows sum to 1: the matrices of the ensemble
\* runs, one that moves everybody, and the empty matrix perturbed is when
\* finalAvgMatrix is no array
PerturbedMatrices ==
    EnMatrices \cup {<<>>, << <<RZero, ROne>>, <<ROne, RZero>> >>}

\* messages to the worker: the initial population, the ensemble size (0
\* counts as 1) and the number of steps
SamplerInputs ==
    [kind : {"sampler"}, initPop : [SeqToSet(EnCountries) -> PopValues],
     ensembleSize : 0..MaxExactMembers, steps : 1..MaxExactSteps]

\* no helper is called in the other components' specifications
HpIdle ==
    /\ hpArg = <<>>
    /\ hpResult = <<>>
    /\ hpPc = "idle"

GetPopulationStock ==
    /\ hpPc = "input"
    /\ hpArg.kind = "yearData"
    /\ hpResult' = getPopulationStock(hpArg, HpCountries)
    /\ hpPc' = "getPopulationStock"
    /\ UNCHANGED <<hpArg, yxVars, tmVars, ppVars, stVars, enVars, appVars>>

GetFlows ==
    /\ hpPc = "input"
    /\ hpArg.kind = "yearData"
    /\ hpResult' = getFlows(hpArg, HpCountries)
    /\ hpPc' = "getFlows"
    /\ UNCHANGED <<hpArg, yxVars, tmVars, ppVars, stVars, enVars, appVars>>

CalculateMetrics ==
    /\ hpPc = "input"
    /\ hpArg.kind = "predictions"
    /\ hpResult' = calculateMetrics(hpArg.list, EnCountries)
    /\ hpPc' = "calculateMetrics"
    /\ UNCHANGED <<hpArg, yxVars, tmVars, ppVars, stVars, enVars, appVars>>

AverageTransitionMatrixFrom ==
    /\ hpPc = "input"
    /\ hpArg.kind = "matrices"
    /\ hpResult' = averageTransitionMatrixFrom(hpArg.list, EnCountries)
    /\ hpPc' = "averageTransitionMatrixFrom"
    /\ UNCHANGED <<hpArg, yxVars, tmVars, ppVars, stVars, enVars, appVars>>

\* the callback of baseMatrix.map in the worker, for one row
Perturbed ==
    /\ hpPc = "input"
    /\ hpArg.kind = "row"
    /\ hpResult' = perturbedRow(hpArg.row, hpArg.nCountries, <<"draws", hpArg.draws, 0>>)
    /\ hpPc' = "perturbed"
    /\ UNCHANGED <<hpArg, yxVars, tmVars, ppVars, stVars, enVars, appVars>>

\* generatePredictions from its first stage to the sampling
TrainingStage ==
    /\ hpPc = "input"
    /\ hpArg.kind = "training"
    /\ hpResult' = trainingStage(hpArg)
    /\ hpPc' = "trainingStage"
    /\ UNCHANGED <<hpArg, yxVars, tmVars, ppVars, stVars, enVars, appVars>>

\* one pass of the worker's step loop (lines 66-102): hpResult is the list
\* of the means pushed so far, and the members' perturbed matrices are any
\* matrices whose rows sum to 1
WorkerStep ==
    /\ hpPc \in {"input", "workerStep"}
    /\ hpArg.kind = "sampler"
    /\ Len(hpResult) < hpArg.steps
    /\ \E perturbedOfMember \in [1..MaxOne(hpArg.ensembleSize) -> PerturbedMatrices] :
          hpResult' =
              Append(hpResult,
                     meanOf(membersOf(IF hpResult = <<>> THEN hpArg.initPop
                                      ELSE hpResult[Len(hpResult)],
                                      perturbedOfMember, EnCountries),
                            EnCountries))
    /\ hpPc' = "workerStep"
    /\ UNCHANGED <<hpArg, yxVars, tmVars, ppVars, stVars, enVars, appVars>>

HpNext ==
    \/ GetPopulationStock
    \/ GetFlows
    \/ CalculateMetrics
    \/ AverageTransitionMatrixFrom
    \/ Perturbed
    \/ TrainingStage
    \/ WorkerStep

(***************************************************************************)
(* Specifications: one per component                                       *)
(***************************************************************************)
InitYears ==
    /\ yxSelected \in SelectedArrays
    /\ yxAvailable \in SUBSET YearUniverse
    /\ yxExpanded = <<>>
    /\ yxPairs = <<>>
    /\ yxPc = "input"
    /\ TmIdle /\ PpIdle /\ StIdle /\ EnIdle /\ AppIdle /\ HpIdle

SpecYears == InitYears /\ [][YxNext]_vars

InitMatrix ==
    /\ \E n \in 2..NumCountries : tmCountries = SubSeq(CountryNames, 1, n)
    /\ \/ \E present \in SUBSET SeqToSet(tmCountries) :
             tmFlows \in [present -> FlowRecords]
       \* the two locations of the worked example
       \/ /\ Len(tmCountries) = 2
          /\ tmFlows = [c \in SeqToSet(tmCountries) |->
                IF c = tmCountries[1]
                THEN [stock |-> Rat(1000), inflow |-> Rat(50), outflow |-> Rat(100)]
                ELSE [stock |-> Rat(500), inflow |-> Rat(200), outflow |-> Rat(20)]]
    /\ tmCoeff \in CoeffValues
    /\ tmMatrix = <<>>
    /\ tmPc = "input"
    /\ YxIdle /\ PpIdle /\ StIdle /\ EnIdle /\ AppIdle /\ HpIdle

SpecMatrix == InitMatrix /\ [][TmNext]_vars

InitPropagate ==
    /\ \E n \in 2..NumCountries : ppCountries = SubSeq(CountryNames, 1, n)
    /\ ppMatrix \in [1..Len(ppCountries) -> UNION {StochasticRows(Len(ppCountries), i) :
                                                        i \in 1..Len(ppCountries)}]
    /\ \A i \in 1..Len(ppCountries) : ppMatrix[i] \in StochasticRows(Len(ppCountries), i)
    /\ \E present \in SUBSET SeqToSet(ppCountries) : ppInitPop \in [present -> PopValues]
    /\ ppPop = ppInitPop
    /\ ppStep = 0
    /\ YxIdle /\ TmIdle /\ StIdle /\ EnIdle /\ AppIdle /\ HpIdle

SpecPropagate == InitPropagate /\ [][PpNext]_vars

InitStats ==
    /\ \E n \in 1..MaxMembers, place \in {"first", "last", "middle"},
          lv \in StatLevels :
          \E numLow \in 0..n :
              stVals = MemberValues(n, numLow, lv[1], lv[2], place)
    /\ stResult = [mean |-> RZero, lower |-> 0, upper |-> 0]
    /\ stPc = "input"
    /\ YxIdle /\ TmIdle /\ PpIdle /\ EnIdle /\ AppIdle /\ HpIdle

SpecStats == InitStats /\ [][StNext]_vars

\* the averaged matrix and the number of steps come from the data and the
\* years selected, which stay as they are between the runs
InitEnsemble ==
    /\ enMatrix \in EnMatrices
    /\ enSteps \in 1..EnMaxSteps
    /\ enHistory = <<>>
    /\ YxIdle /\ TmIdle /\ PpIdle /\ StIdle /\ AppIdle /\ HpIdle

SpecEnsemble == InitEnsemble /\ [][EnNext]_vars

\* the state after AppInner is constructed; the mount effect is still to run
InitRun ==
    /\ migrationData = {} /\ years = {} /\ allCountries = {}
    /\ yearIndex = {} /\ selectedCountries = {}
    /\ inputMode = "single" /\ inputYear = 0 /\ inputYearsMulti = {}
    /\ targetYear = 0
    /\ loadingData = TRUE /\ modelRunning = FALSE /\ resultsReady = FALSE
    /\ modelStage = <<>>
    /\ predictions = <<>> /\ averageTransitionMatrix = {}
    /\ validationMetrics = {}
    /\ loadsPending \in 1..StrictModeMounts
    /\ timers = 0 /\ awaiting = {} /\ runCount = 0 /\ resultsOf = 0
    /\ alerts = 0
    /\ YxIdle /\ TmIdle /\ PpIdle /\ StIdle /\ EnIdle /\ HpIdle

\* the version that hands the ensemble to the worker
SpecRun == InitRun /\ [][RunNext]_vars

\* the version that samples on the main thread
SpecApp == InitRun /\ [][AppNext]_vars

\* the version that hands the ensemble to the worker, with what the browser
\* guarantees: a fetch settles and a timer that is due runs.  Nothing makes a
\* worker answer: it posts no message when postMessage throws twice (the
\* second catch of the worker swallows the error), so neither WorkerMessage
\* nor WorkerError is bound to happen
SpecRunFair ==
    /\ InitRun
    /\ [][RunNext]_vars
    /\ WF_vars(LoadData)
    /\ WF_vars(ModelRunningTimer)

InitHelpers ==
    /\ \/ hpArg \in YearDataInputs
       \/ hpArg \in MetricInputs
       \/ hpArg \in MatrixInputs
       \/ hpArg \in RowInputs
       \/ hpArg \in TrainingInputs
       \/ hpArg \in SamplerInputs
    /\ hpResult = <<>>
    /\ hpPc = "input"
    /\ YxIdle /\ TmIdle /\ PpIdle /\ StIdle /\ EnIdle /\ AppIdle

SpecHelpers == InitHelpers /\ [][HpNext]_vars
(***************************************************************************)
(* Claims                                                                  *)
(***************************************************************************)
IsAscending(s) == \A i \in 1..(Len(s) - 1) : s[i] < s[i + 1]

\* C6: the expanded list is ascending and duplicate-free and holds exactly
\* the selected years and those of their neighbours y-1, y+1 that are
\* available; expand({2005, 2010}, 2000..2020) is 2004,2005,2006,2009,2010,2011.
C6_ExpandExact ==
    /\ yxPc # "input" =>
          /\ IsAscending(yxExpanded)
          /\ SeqToSet(yxExpanded) =
                SeqToSet(yxSelected)
                  \cup {z \in yxAvailable :
                          \E y \in SeqToSet(yxSelected) : z = y - 1 \/ z = y + 1}
    /\ expandSelectedYearsWithAdjacents(<<2005, 2010>>, 2000..2020)
          = <<2004, 2005, 2006, 2009, 2010, 2011>>

\* a selection whose expansion adds an available neighbour and leaves out an
\* unavailable one
C6_Witness ==
    /\ yxPc = "expanded"
    /\ \E y \in SeqToSet(yxSelected) :
          /\ (y + 1) \in SeqToSet(yxExpanded) /\ (y + 1) \notin SeqToSet(yxSelected)
          /\ (y - 1) \notin SeqToSet(yxExpanded)
    /\ Len(yxSelected) = 2 /\ yxSelected[1] > yxSelected[2]

\* C7: the pairs of a sorted duplicate-free list are exactly the (y, y+1)
\* with both years in the list, in ascending order.
C7_PairsExact ==
    yxPc = "paired" =>
        /\ SeqToSet(yxPairs) =
              {<<y, y + 1>> : y \in {z \in SeqToSet(yxExpanded) :
                                         (z + 1) \in SeqToSet(yxExpanded)}}
        /\ \A i \in 1..(Len(yxPairs) - 1) : yxPairs[i][1] < yxPairs[i + 1][1]

\* a list with a gap of more than one year between two neighbours, and a pair
C7_Witness ==
    /\ yxPc = "paired"
    /\ Len(yxPairs) >= 1
    /\ \E i \in 1..(Len(yxExpanded) - 1) : yxExpanded[i + 1] - yxExpanded[i] > 1

RowStochastic(row) ==
    /\ \A j \in DOMAIN row : RLe(RZero, row[j])
    /\ RSum(row) = ROne

\* C1: every row of an estimated matrix has non-negative entries that sum
\* to 1.
C1_RowStochastic ==
    tmPc = "estimated" =>
        /\ Len(tmMatrix) = Len(tmCountries)
        /\ \A i \in DOMAIN tmMatrix :
              /\ Len(tmMatrix[i]) = Len(tmCountries)
              /\ RowStochastic(tmMatrix[i])

\* an origin whose outflow exceeds its stock, with three destinations weighted
\* by distance and connectivity
C1_Witness ==
    /\ tmPc = "estimated"
    /\ Len(tmCountries) = 3
    /\ tmCoeff = <<Frac(1, 2), Frac(3, 10)>>
    /\ \E i \in DOMAIN tmMatrix :
          /\ tmCountries[i] \in DOMAIN tmFlows
          /\ RLt(tmFlows[tmCountries[i]].stock, tmFlows[tmCountries[i]].outflow)
          /\ ~Falsy(tmFlows[tmCountries[i]].stock)
          /\ tmMatrix[i][i] = Frac(1, 2)
          /\ \A j \in DOMAIN tmMatrix : RLt(RZero, tmMatrix[i][j])

\* C2: an origin whose stock is 0 or missing has the identity row.
C2_IdentityRow ==
    tmPc = "estimated" =>
        \A i \in DOMAIN tmMatrix :
            (\/ tmCountries[i] \notin DOMAIN tmFlows
             \/ tmFlows[tmCountries[i]].stock = NaN
             \/ tmFlows[tmCountries[i]].stock = RZero)
            => \A j \in DOMAIN tmMatrix :
                  tmMatrix[i][j] = IF i = j THEN ROne ELSE RZero

\* a matrix with an identity row for a present origin of stock 0 and large
\* outflow, next to a row that is not the identity
C2_Witness ==
    /\ tmPc = "estimated"
    /\ \E i, k \in DOMAIN tmMatrix :
          /\ tmCountries[i] \in DOMAIN tmFlows
          /\ tmFlows[tmCountries[i]].stock = RZero
          /\ tmFlows[tmCountries[i]].outflow = Rat(2000)
          /\ tmMatrix[i][i] = ROne
          /\ tmMatrix[k][k] # ROne


\* C20: with two locations of positive stock, T[i][i] is
\* max(0.5, 1 - outflow_i / max(1, stock_i)) and the other entry of the row
\* is 1 - T[i][i], whatever the inflows and the coefficients; for stock 1000
\* with outflow 100 and stock 500 with outflow 20 the rows are (0.9, 0.1) and
\* (0.04, 0.96), and one step from (1000, 500) gives (920, 580).
C20_TwoLocations ==
    (/\ tmPc = "estimated"
     /\ Len(tmCountries) = 2
     /\ \A i \in 1..2 : /\ tmCountries[i] \in DOMAIN tmFlows
                        /\ tmFlows[tmCountries[i]].stock # NaN
                        /\ RLt(RZero, tmFlows[tmCountries[i]].stock))
    => /\ \A i \in 1..2 :
             /\ tmMatrix[i][i] =
                   RMax(Frac(1, 2),
                        RSub(ROne, RDiv(tmFlows[tmCountries[i]].outflow,
                                        RMax(ROne, tmFlows[tmCountries[i]].stock))))
             /\ tmMatrix[i][3 - i] = RSub(ROne, tmMatrix[i][i])
       /\ (/\ tmFlows[tmCountries[1]].stock = Rat(1000)
           /\ tmFlows[tmCountries[1]].outflow = Rat(100)
           /\ tmFlows[tmCountries[2]].stock = Rat(500)
           /\ tmFlows[tmCountries[2]].outflow = Rat(20))
          => /\ tmMatrix = << <<Frac(9, 10), Frac(1, 10)>>, <<Frac(1, 25), Frac(24, 25)>> >>
             /\ propagatePopulation(
                    [c \in SeqToSet(tmCountries) |->
                        IF c = tmCountries[1] THEN Rat(1000) ELSE Rat(500)],
                    tmMatrix, tmCountries)
                  = [c \in SeqToSet(tmCountries) |->
                        IF c = tmCountries[1] THEN Rat(920) ELSE Rat(580)]

\* the worked example has been estimated with alpha = 0.5 and beta = 0.3
C20_Witness ==
    /\ tmPc = "estimated"
    /\ Len(tmCountries) = 2
    /\ DOMAIN tmFlows = SeqToSet(tmCountries)
    /\ tmFlows[tmCountries[1]] = [stock |-> Rat(1000), inflow |-> Rat(50), outflow |-> Rat(100)]
    /\ tmFlows[tmCountries[2]] = [stock |-> Rat(500), inflow |-> Rat(200), outflow |-> Rat(20)]
    /\ tmCoeff = <<Frac(1, 2), Frac(3, 10)>>
    /\ tmMatrix[1] = <<Frac(9, 10), Frac(1, 10)>>
\* the sum of a population vector over the locations, a missing entry as 0
TotalPop(pop, countries) ==
    RSum([i \in DOMAIN countries |-> PopOrZero(pop, countries[i])])

\* C3: with a matrix whose rows each sum to 1, the propagated vector has the
\* same total over the locations as the vector the forecast started from.
C3_MassConserved ==
    ppStep >= 0 =>
        /\ \A i \in DOMAIN ppMatrix : RSum(ppMatrix[i]) = ROne
        /\ TotalPop(ppPop, ppCountries) = TotalPop(ppInitPop, ppCountries)

\* a propagated vector that differs from the one before it, under a matrix
\* that is not the identity and whose columns do not sum to 1
C3_Witness ==
    /\ ppStep = PropSteps
    /\ Len(ppCountries) = 3
    /\ \E c \in SeqToSet(ppCountries) : c \notin DOMAIN ppInitPop
    /\ \E c \in DOMAIN ppInitPop : ppPop[c] # ppInitPop[c]
    /\ \E j \in DOMAIN ppMatrix :
          RSum([i \in DOMAIN ppMatrix |-> ppMatrix[i][j]]) # ROne

\* C5 as stated: lower <= mean <= upper for every ensemble size.
C5_QuantileSanity ==
    stPc \in {"worker", "app"} =>
        /\ RLe(Rat(stResult.lower), stResult.mean)
        /\ RLe(stResult.mean, Rat(stResult.upper))

\* C5 (amended): lower <= upper for every ensemble size, and
\* lower <= mean <= upper when fewer than 40 members are reduced, where lower
\* is the smallest and upper the largest member value.
C5_QuantileSanitySmall ==
    stPc \in {"worker", "app"} =>
        /\ stResult.lower <= stResult.upper
        /\ Len(stVals) < 40 =>
              /\ RLe(Rat(stResult.lower), stResult.mean)
              /\ RLe(stResult.mean, Rat(stResult.upper))
              /\ \A s \in DOMAIN stVals :
                    stResult.lower <= stVals[s] /\ stVals[s] <= stResult.upper

\* thirty members, sampled out of order, with the mean strictly between
\* the two bounds
C5_Witness ==
    /\ stPc = "worker"
    /\ Len(stVals) = 30
    /\ stVals[1] > stVals[30]
    /\ RLt(Rat(stResult.lower), stResult.mean)
    /\ RLt(stResult.mean, Rat(stResult.upper))

\* C4: two runs with the same non-empty seed, matrix, initial population,
\* ensemble size and step count have identical mean, lower and upper
\* sequences, whatever ran before or in between.
C4_SeededDeterminism ==
    \A a, b \in DOMAIN enHistory :
        (/\ enHistory[a].seed # <<>>
         /\ enHistory[a].seed = enHistory[b].seed
         /\ enHistory[a].matrix = enHistory[b].matrix
         /\ enHistory[a].initPop = enHistory[b].initPop
         /\ enHistory[a].ensembleSize = enHistory[b].ensembleSize
         /\ enHistory[a].steps = enHistory[b].steps)
        => enHistory[a].bands = enHistory[b].bands


\* C13: the sampler on the main thread and the worker's sampler compute the
\* same thing: a run of each with the same matrix, initial population, step
\* count and ensemble size, whose generators start in the same state and so
\* return the same draws, have identical mean, lower and upper sequences.
C13_SameAlgorithm ==
    \A a, b \in DOMAIN enHistory :
        (/\ enHistory[a].sampler = "worker"
         /\ enHistory[b].sampler = "main"
         /\ enHistory[a].rng = enHistory[b].rng
         /\ enHistory[a].matrix = enHistory[b].matrix
         /\ enHistory[a].initPop = enHistory[b].initPop
         /\ enHistory[a].ensembleSize = enHistory[b].ensembleSize
         /\ enHistory[a].steps = enHistory[b].steps)
        => enHistory[a].bands = enHistory[b].bands
\* C8: at most one model run is in flight at any time: while a run waits for
\* its ensemble no second run is started.
C8_OneRunInFlight == Cardinality(awaiting) <= 1

\* C9: last-run-wins: the results shown are never those of a run older than
\* the newest run started.
C9_LastRunWins == resultsReady => resultsOf = runCount

\* C10: a run that aborts with a fatal error leaves predictions, averaged
\* matrix, validation metrics and resultsReady exactly as they were before
\* it was started.
C10_FailureKeepsResults ==
    [][alerts' # alerts => resultVars' = resultVars]_vars


\* C11: a run started when the index has no row for the start year fails, the
\* error is shown to the user, and after it there are no predictions, no
\* averaged matrix, no metrics and resultsReady is false.
C11_MissingDataFails ==
    [][(runCount' # runCount /\ startYr \notin yearIndex)
          => /\ alerts' = alerts + 1
             /\ ~resultsReady'
             /\ predictions' = <<>>
             /\ averageTransitionMatrix' = {}
             /\ validationMetrics' = {}]_vars

\* a run has failed after an earlier run had published its results
C11_Witness == alerts > 0 /\ runCount > 1 /\ ~resultsReady /\ predictions = <<>>

\* C12: when the worker cannot be created or reports an error the run does
\* not fail: the fallback computes the bands of every step, and the run ends
\* with resultsReady true and one prediction per year from its start year to
\* its target year.
C12_WorkerErrorFallsBack ==
    [][WorkerError =>
          /\ alerts' = alerts
          /\ resultsReady'
          /\ \E run \in awaiting \ awaiting' :
                /\ Len(predictions') = run.targetYear - run.startYr + 1
                /\ \A k \in DOMAIN predictions' :
                      /\ predictions'[k].year = run.startYr + k - 1
                      /\ predictions'[k].computed]_vars

\* a run that fell back has published predictions for more than one year
C12_Witness ==
    /\ resultsReady
    /\ Len(predictions) > 1
    /\ predictions[1].sampler = "fallback"

\* the place of a stage label among the stages Idle (0), LoadingTraining,
\* BuildingMatrices, Averaging, Sampling, Scoring and Done (6); the ensemble
\* and the building of the prediction records are both Sampling
RunStageRank(label) ==
    CASE label = "Loading training data..." -> 1
      [] label = "Building transition matrices..." -> 2
      [] label = "Averaging transition matrices..." -> 3
      [] label = "Running ensemble predictions..." -> 4
      [] label = "Generating predictions..." -> 4
      [] label = "Calculating metrics..." -> 5
      [] label = "Complete!" -> 6

\* from Idle the stages are entered one after the other: none is entered
\* again once left and none is skipped
InStageOrder(stages) ==
    /\ stages # <<>>
    /\ RunStageRank(stages[1]) = 1
    /\ \A k \in 2..Len(stages) :
          RunStageRank(stages[k]) - RunStageRank(stages[k - 1]) \in {0, 1}

\* C14: a run starts only when no run is running, enters the stages in the
\* order LoadingTraining, BuildingMatrices, Averaging, Sampling, Scoring, Done
\* without going back or skipping one, and either reaches Done or fails with
\* the error shown to the user.
C14_StageOrder ==
    [][runCount' # runCount =>
          /\ ~modelRunning
          /\ InStageOrder(modelStage')
          /\ IF RunStageRank(modelStage'[Len(modelStage')]) = 6
             THEN alerts' = alerts /\ resultsReady'
             ELSE alerts' = alerts + 1 /\ ~resultsReady' /\ ~modelRunning']_vars

\* a run has reached Done after an earlier run had failed
C14_Witness ==
    /\ alerts > 0
    /\ resultsReady
    /\ modelStage # <<>>
    /\ modelStage[Len(modelStage)] = "Complete!"

\* C15: every run that was started ends, and the running flag returns to
\* false: a run does not wait for its worker for ever.
C15_EveryRunEnds ==
    /\ (awaiting # {}) ~> (awaiting = {})
    /\ modelRunning ~> ~modelRunning

\* the cell holds no number: it is missing, empty or not parseable
NoNumber(cell) == parseFloat(cell) = NaN

\* C16: a stock, inflow or outflow that is missing, empty or not parseable is
\* read as 0 by getFlows and by getPopulationStock; the stock is missing when
\* neither of its two columns holds a number.
C16_MalformedReadAsZero ==
    \A c \in SeqToSet(HpCountries) :
        (hpArg.kind = "yearData" /\ c \in DOMAIN hpArg.rows) =>
            /\ hpPc = "getFlows" =>
                  /\ NoNumber(hpArg.rows[c][Headers[1]]) => hpResult[c].inflow = RZero
                  /\ NoNumber(hpArg.rows[c][Headers[2]]) => hpResult[c].outflow = RZero
                  /\ (NoNumber(hpArg.rows[c][Headers[3]]) /\ NoNumber(hpArg.rows[c][Headers[4]]))
                        => hpResult[c].stock = RZero
            /\ hpPc = "getPopulationStock" =>
                  ((NoNumber(hpArg.rows[c][Headers[3]]) /\ NoNumber(hpArg.rows[c][Headers[4]]))
                        => hpResult[c] = RZero)

\* the (prediction, location) pairs of a list whose actual value is > 0
PositiveActuals(list) ==
    {<<k, c>> \in (DOMAIN list) \X SeqToSet(EnCountries) :
        /\ list[k].hasActual
        /\ c \in DOMAIN list[k].actualData
        /\ RLt(RZero, list[k].actualData[c])}

\* C17: when no point is counted calculateMetrics returns rmse 0, mae 0,
\* coverage 0 and totalPoints 0.
C17_NoPointsAllZero ==
    (hpPc = "calculateMetrics" /\ PositiveActuals(hpArg.list) = {}) =>
        hpResult = [rmse |-> RZero, mae |-> RZero, coverage |-> RZero, totalPoints |-> 0]

\* a list of two predictions, one without actual data and one whose actual
\* values are 0, has been scored
C17_Witness ==
    /\ hpPc = "calculateMetrics"
    /\ Len(hpArg.list) = 2
    /\ ~hpArg.list[1].hasActual
    /\ hpArg.list[2].hasActual
    /\ \A c \in DOMAIN hpArg.list[2].actualData : hpArg.list[2].actualData[c] = RZero
    /\ hpResult.totalPoints = 0

\* the sum of |predicted - actual| over a set of (prediction, location) pairs
RECURSIVE AbsErrorSum(_, _)
AbsErrorSum(list, pairs) ==
    IF pairs = {} THEN RZero
    ELSE LET pc == CHOOSE pc \in pairs : TRUE
             e == RSub(list[pc[1]].predicted[pc[2]], list[pc[1]].actualData[pc[2]])
         IN  RAdd(IF RLe(RZero, e) THEN e ELSE RSub(RZero, e),
                  AbsErrorSum(list, pairs \ {pc}))

\* C18: totalPoints is the number of (prediction, location) pairs whose
\* actual value is > 0, mae is the sum of |predicted - actual| over them
\* divided by totalPoints, and coverage is 100 times the fraction of them
\* with lower <= actual <= upper, which lies between 0 and 100.
C18_MetricsOverPositiveActuals ==
    hpPc = "calculateMetrics" =>
        /\ hpResult.totalPoints = Cardinality(PositiveActuals(hpArg.list))
        /\ hpResult.totalPoints > 0 =>
              /\ RMul(hpResult.mae, Rat(hpResult.totalPoints))
                    = AbsErrorSum(hpArg.list, PositiveActuals(hpArg.list))
              /\ RMul(hpResult.coverage, Rat(hpResult.totalPoints))
                    = Rat(100 * Cardinality(
                          {pc \in PositiveActuals(hpArg.list) :
                              /\ RLe(hpArg.list[pc[1]].lower[pc[2]],
                                     hpArg.list[pc[1]].actualData[pc[2]])
                              /\ RLe(hpArg.list[pc[1]].actualData[pc[2]],
                                     hpArg.list[pc[1]].upper[pc[2]])}))
              /\ RLe(RZero, hpResult.coverage)
              /\ RLe(hpResult.coverage, Rat(100))

\* three points are counted, of which one lies inside its band, next to a
\* point whose actual value is 0
C18_Witness ==
    /\ hpPc = "calculateMetrics"
    /\ hpResult.totalPoints = 3
    /\ hpResult.coverage = Frac(100, 3)
    /\ hpResult.mae = Frac(70, 3)
    /\ \E k \in DOMAIN hpArg.list : \E c \in DOMAIN hpArg.list[k].actualData :
          hpArg.list[k].actualData[c] = RZero

\* C19: averageTransitionMatrixFrom returns null for an empty list and else
\* the element-wise mean: entry (i, j) times the number of listed matrices
\* is the sum of the entries (i, j) of the listed matrices.
C19_ElementwiseMean ==
    hpPc = "averageTransitionMatrixFrom" =>
        IF Len(hpArg.list) = 0 THEN hpResult = <<>>
        ELSE /\ Len(hpResult) = Len(EnCountries)
             /\ \A i \in DOMAIN hpResult :
                   /\ Len(hpResult[i]) = Len(EnCountries)
                   /\ \A j \in DOMAIN hpResult[i] :
                         RMul(hpResult[i][j], Rat(Len(hpArg.list)))
                            = RSum([t \in DOMAIN hpArg.list |-> hpArg.list[t].matrix[i][j]])

\* three different matrices have been averaged: (1/2 + 9/10 + 1) / 3 = 4/5
C19_Witness ==
    /\ hpPc = "averageTransitionMatrixFrom"
    /\ Len(hpArg.list) = 3
    /\ Cardinality({hpArg.list[t].matrix : t \in DOMAIN hpArg.list}) = 3
    /\ hpResult[1][1] = Frac(4, 5)

\* C21: in the result sequence of every ensemble run, by the worker or on
\* the main thread, the entry of step 0 (the start year) has mean = lower =
\* upper = the initial population, for every location.
C21_StepZeroIsInitPop ==
    \A a \in DOMAIN enHistory :
        /\ Len(enHistory[a].bands) >= 1
        /\ \A c \in SeqToSet(EnCountries), b \in 1..3 :
              enHistory[a].bands[1][b][c] = enHistory[a].initPop[c]

\* a worker run and a main-thread run of two steps have been made
C21_Witness ==
    /\ Len(enHistory) = 2
    /\ enHistory[1].sampler = "worker"
    /\ enHistory[2].sampler = "main"
    /\ enHistory[2].steps = 2
    /\ Len(enHistory[2].bands) = 3

\* the number of calls of rng() a worker run makes: one per matrix entry,
\* member and step
RunDraws(run) == run.steps * MaxOne(run.ensembleSize) * MatrixDraws(run.matrix)

\* C22: every draw of the seeded generator lies in [0, 1): every value rng()
\* returns in a seeded worker run is >= 0 and < 1 (the model keeps a draw in
\* sixteenths, rounded down).
C22_DrawsInUnitInterval ==
    \A a \in DOMAIN enHistory :
        (enHistory[a].sampler = "worker" /\ enHistory[a].rng[1] = "lcg")
        => \A k \in 1..RunDraws(enHistory[a]) :
              /\ RngValue(RngAfter(enHistory[a].rng, k)) >= 0
              /\ RngValue(RngAfter(enHistory[a].rng, k)) < 16

\* the number of calls of the generator one step of a run makes
StepDraws(run) == MaxOne(run.ensembleSize) * MatrixDraws(run.matrix)

\* mean, lower and upper of step k >= 1 of a run when every member is
\* propagated one step from the mean of step k - 1 with a matrix perturbed
\* by the run's sampler, the generator being where the run has it when the
\* step begins (the loop on the main thread also draws in step 0)
ChainedOnMean(run, k) ==
    LET st == IF run.sampler = "worker"
              THEN workerStep(run.bands[k][1], run.matrix, EnCountries,
                              run.ensembleSize,
                              RngAfter(run.rng, (k - 1) * StepDraws(run)))
              ELSE mainThreadStep(1, run.bands[k][1], run.matrix, EnCountries,
                                  run.ensembleSize,
                                  RngAfter(run.rng, k * StepDraws(run)))
    IN  <<st.mean, st.lower, st.upper>>

\* C24: in the ensemble sampler the members of step s+1 are all propagated
\* exactly one step from the mean vector of step s (those of step 1 from the
\* initial population), each with its own freshly perturbed matrix; no
\* member trajectory is carried from one step to the next.
C24_ChainedOnMean ==
    \A a \in DOMAIN enHistory :
        \A k \in 1..enHistory[a].steps :
            enHistory[a].bands[k + 1] = ChainedOnMean(enHistory[a], k)

\* the same for the runs the worker samples
C24_WorkerChainedOnMean ==
    \A a \in DOMAIN enHistory :
        enHistory[a].sampler = "worker" =>
            \A k \in 1..enHistory[a].steps :
                enHistory[a].bands[k + 1] = ChainedOnMean(enHistory[a], k)

\* the sum of a population vector over the locations
TotalOf(pop) == RSum([i \in DOMAIN EnCountries |-> pop[EnCountries[i]]])

\* C29: the worker's running mean conserves the total population: at every
\* step the sum over the locations of the mean equals the sum over the
\* locations of the initial population, for every ensemble size and every
\* perturbed matrices whose rows sum to 1.
C29_MeanConservesTotal ==
    hpPc = "workerStep" =>
        \A k \in DOMAIN hpResult : TotalOf(hpResult[k]) = TotalOf(hpArg.initPop)

\* two steps of two members with different matrices have moved population:
\* the mean of the second step is neither the initial population nor the
\* mean of the first step
C29_Witness ==
    /\ hpPc = "workerStep"
    /\ hpArg.ensembleSize = 2
    /\ Len(hpResult) = 2
    /\ hpResult[1] # hpArg.initPop
    /\ hpResult[2] # hpResult[1]
    /\ TotalOf(hpArg.initPop) = Rat(1007)

\* C23: every run that passes the guards of generatePredictions has a target
\* year strictly later than its start year (inputYear in single mode, the
\* maximum selected year in multiple mode), so it has at least one step and
\* publishes at least two prediction records; in a state in which a guard
\* fails no step starts a run or changes the results, the stage, the alerts
\* or the runs waiting.
C23_TargetAfterStart ==
    [][/\ runCount' # runCount =>
             /\ ~EarlyReturn
             /\ targetYear > startYr
             /\ startYr = MaxInput
             /\ startYr \in yearIndex =>
                   Len(predictions') = targetYear - startYr + 1
       /\ EarlyReturn =>
             UNCHANGED <<resultVars, modelStage, awaiting, runCount, resultsOf,
                         alerts>>]_vars

\* a run of two steps has published, and the button is now enabled in a
\* state in which the handler returns early
C23_Witness ==
    /\ resultsReady
    /\ Len(predictions) = 3
    /\ ~RunDisabled
    /\ EarlyReturn

\* the entries of a row in thousandths
RowThousandths(row) == [j \in DOMAIN row |-> Thousandths(row[j])]

C25_WitnessUniform ==
    /\ hpPc = "perturbed"
    /\ hpArg.row = NotAnArray
    /\ hpResult = <<Frac(1, 2), Frac(1, 2)>>

\* C26: the averaged transition matrix is row-stochastic whenever every
\* per-pair matrix is: each of its rows has non-negative entries that sum to
\* 1, for any number of training matrices.
C26_AverageRowStochastic ==
    (/\ hpPc = "averageTransitionMatrixFrom"
     /\ Len(hpArg.list) > 0
     /\ \A t \in DOMAIN hpArg.list :
           \A i \in DOMAIN hpArg.list[t].matrix :
               RowStochastic(hpArg.list[t].matrix[i]))
    => /\ Len(hpResult) = Len(EnCountries)
       /\ \A i \in DOMAIN hpResult : RowStochastic(hpResult[i])

\* three matrices of which two are equal have been averaged, and a row of
\* the result is none of theirs: (9/10 + 9/10 + 1/2) / 3 = 23/30
C26_Witness ==
    /\ hpPc = "averageTransitionMatrixFrom"
    /\ Len(hpArg.list) = 3
    /\ \A t \in DOMAIN hpArg.list :
          \A i \in DOMAIN hpArg.list[t].matrix :
              RowStochastic(hpArg.list[t].matrix[i])
    /\ hpResult[1] = <<Frac(23, 30), Frac(7, 30)>>

\* C27: in every run and in both input modes, every training pair (y1, y2)
\* from which a transition matrix is built satisfies y2 = y1 + 1, also when
\* some years between 2002 and 2020 have no data file.  (The matrix of the
\* start year, taken when there is nothing to average, comes from no pair.)
C27_PairsOneYearApart ==
    (hpPc = "trainingStage" /\ hpResult.thrown = "none") =>
        \A k \in DOMAIN hpResult.transMatrices :
            hpResult.transMatrices[k].flowsOf # hpResult.transMatrices[k].year
            => hpResult.transMatrices[k].year = hpResult.transMatrices[k].flowsOf + 1

\* the same for the runs whose matrices come from the years selected in
\* multiple mode
C27_SelectedPairsOneYearApart ==
    (/\ hpPc = "trainingStage"
     /\ hpArg.inputMode = "multiple"
     /\ buildTrainingTransitionMatricesAndPairs(
            "multiple", hpArg.inputYearsMulti,
            canonicalTrainData(hpArg.migrationData), hpArg.migrationData,
            hpArg.migrationData) # <<>>)
    => \A k \in DOMAIN hpResult.transMatrices :
           hpResult.transMatrices[k].year = hpResult.transMatrices[k].flowsOf + 1

\* C28: the failure "No transition matrix available" is unreachable: in every
\* run in which the start year has a data row, the averaged matrix or the
\* matrix of the start year is there when sampling begins.
C28_MatrixAvailable ==
    hpPc = "trainingStage" =>
        /\ hpResult.thrown # "No transition matrix available"
        /\ hpArg.sampleYear \in hpArg.migrationData =>
              /\ hpResult.thrown = "none"
              /\ hpResult.transMatrices # <<>>

\* a run whose only canonical year leaves nothing to average has taken the
\* matrix of its start year
C28_Witness ==
    /\ hpPc = "trainingStage"
    /\ Len(canonicalTrainData(hpArg.migrationData)) = 1
    /\ hpArg.sampleYear = CanonicalFrom - 1
    /\ hpResult.thrown = "none"
    /\ hpResult.transMatrices =
          << [year |-> CanonicalFrom - 1, flowsOf |-> CanonicalFrom - 1] >>

\* C30: resultsReady is false after every step that starts a run unless that
\* run completed successfully in the same handler call, it is false after a
\* failed run, and it turns true only on a step of a run that has published
\* its own predictions and its own averaged matrix.
C30_ReadyOnlyAfterPublish ==
    [][/\ runCount' # runCount =>
             (resultsReady' <=>
                 /\ alerts' = alerts
                 /\ resultsOf' = runCount'
                 /\ predictions' = allPredictions(Captured(runCount'), "main")
                 /\ averageTransitionMatrix' = migrationData
                 /\ averageTransitionMatrix' # {})
       /\ alerts' # alerts => ~resultsReady'
       /\ (resultsReady' /\ ~resultsReady) => runCount' # runCount
       /\ (resultsReady' /\ runCount' = runCount) =>
             UNCHANGED <<predictions, averageTransitionMatrix, resultsOf>>]_vars

\* a run has published its results after an earlier run had failed
C30_Witness ==
    /\ resultsReady
    /\ alerts > 0
    /\ runCount > 1
    /\ resultsOf = runCount
    /\ Len(predictions) > 1
    /\ averageTransitionMatrix # {}
=============================================================================
